---- MODULE Spec2Model ----
(***************************************************************************)
(* State-machine model of the QuantPulse streaming pipeline                *)
(* (src/backend/app): the paper-trade simulator and its trade state, the   *)
(* fan-out event bus, the tick->candle builder, the timeframe aggregator,  *)
(* the indicator, support/resistance, signal and stats engines, and the    *)
(* tick orchestrator, and the life cycle of the broker client.             *)
(*                                                                         *)
(* Prices and epochs are Python floats in the source; the model draws them *)
(* from small sets of integers, on which the comparisons and the floor     *)
(* alignment used by the code are exact.  Quotients (pnl_percent, the      *)
(* stats metrics, the RSI averages) are kept as exact fractions            *)
(* <<numerator, denominator>>; the EMAs are decimals of four places.       *)
(***************************************************************************)
EXTENDS Integers, Sequences, FiniteSets, TLC

VARIABLES
    trades,          \* every SimulatedTrade object constructed so far, by id
    active_trades,   \* TradeStateManager._active_trades : symbol -> trade id
    closed_trades,   \* TradeStateManager._closed_trades : symbol -> deque of ids
    closed_keys,     \* the keys of _closed_trades in insertion order
    sim_stats,       \* TradeSimulator._stats (_SimulatorStats)
    building,        \* CandleBuilder._building : symbol -> _BuildingCandle
    candles,         \* SymbolState.candles : symbol -> closed base candles
    folded_ticks,    \* history: the ticks folded into each building candle
    emitted_ticks,   \* history: the ticks folded into each closed candle
    tf_building,     \* TimeframeAggregator._building : <<symbol, tf>> -> candle
    tf_folded,       \* history: base candles folded into each building TF candle
    tf_emitted,      \* history: <<symbol, tf>> -> TF candles the aggregator closed
    subscribers,     \* EventBus._subscribers : topic -> list of queue ids
    queues,          \* the asyncio.Queue objects handed out, by queue id
    published,       \* history: topic -> payloads published, in order
    subscribed_at,   \* history: queue id -> publications before it subscribed
    delivered,       \* history: queue id -> payloads its consumer dequeued
    evicted,         \* history: queue id -> payloads dropped from it when full
    client,          \* DerivClient: _ticks_received, _last_tick_time
    uc_queue,        \* ProcessTickUseCase._queue : queue id, or None
    processed_count, \* ProcessTickUseCase._processed_count
    last_tick,       \* SymbolState.last_tick : symbol -> Tick
    total_ticks,     \* SymbolState.total_ticks : symbol -> count
    born,            \* history: trade id -> total_ticks of its symbol at creation
    opened,          \* history: trade id -> total_ticks of its symbol at activation
    sr_states,       \* SupportResistanceService._states : symbol -> swing levels
    prev_indicators, \* SignalEngine._prev_indicators : symbol -> snapshot
    last_signal_ts,  \* SignalEngine._last_signal_ts : symbol -> candle timestamp
    recent_signals,  \* SignalEngine._recent_signals : symbol -> deque of Signals
    engine_stats,    \* SignalEngine counters (_total_evaluated, ...)
    emissions,       \* history: every evaluate call that returned a Signal
    replay,          \* a second engine, fed the candles the first one is fed
    stats_cache,     \* StatsEngine._cache : key -> <<count, metrics>>
    computes,        \* history: key -> compute() runs since its invalidation
    queries,         \* get_metrics calls made so far
    indicator_states,\* IndicatorStateManager._states : symbol -> indicator state
    returned,        \* history: symbol -> what each update(candle) returned
    tf_candles,      \* MarketState tf_candles : <<symbol, timeframe>> -> buffer
    tf_published,    \* history: what _process_tf_candle published, in order
    conn,            \* DerivClient: _running, _ws, its two tasks, the socket
    conn_log,        \* history: waits, connection attempts, ticks after stop()
    uc,              \* ProcessTickUseCase: _active_timeframe, its indicator
                     \* service, settings.available_timeframes it runs with,
                     \* the exceptions _run has logged, where
                     \* _run stands ("get": at queue.get, "ended")
    uc_log,          \* history: the gated steps of _process_tf_candle
    lifespan,        \* main.py lifespan: how far the shutdown has got, and
                     \* whether the broadcast tasks of the WebSocketManager run
    steps            \* input events (ticks, frames, publications) fed so far

tradeVars == <<trades, active_trades, closed_trades, closed_keys, sim_stats>>

candleVars == <<building, candles, folded_ticks, emitted_ticks,
                tf_building, tf_folded, tf_emitted>>

busVars == <<subscribers, queues, published, subscribed_at, delivered, evicted>>

vars == <<trades, active_trades, closed_trades, closed_keys, sim_stats,
          building, candles, folded_ticks, emitted_ticks,
          tf_building, tf_folded, tf_emitted,
          subscribers, queues, published, subscribed_at, delivered, evicted,
          client, uc_queue, processed_count, last_tick, total_ticks,
          born, opened,
          sr_states, prev_indicators, last_signal_ts, recent_signals,
          engine_stats, emissions, replay,
          stats_cache, computes, queries,
          indicator_states, returned, tf_candles, tf_published,
          conn, conn_log, uc, uc_log, lifespan, steps>>

pipeVars == <<client, uc_queue, processed_count, last_tick, total_ticks,
              born, opened>>

signalVars == <<sr_states, prev_indicators, last_signal_ts, recent_signals,
                engine_stats, emissions, replay>>

statsVars == <<stats_cache, computes, queries>>

\* The components that the tick path reaches only through a closed
\* timeframe candle.
indicatorVars == <<indicator_states, returned, tf_candles, tf_published>>

\* The life cycle of the broker client.
linkVars == <<conn, conn_log>>

\* The orchestrator's timeframe selector and error log.
orchVars == <<uc, uc_log, lifespan>>

engineVars == <<signalVars, statsVars, indicatorVars, linkVars, orchVars>>

(***************************************************************************)
(* Bounds of the model and program constants                               *)
(***************************************************************************)
MaxSignals == 3

MaxTicks == 4

max_trade_duration == 30

MaxHistory == 1

\* The cap of a symbol's closed history.  trade_state.MAX_HISTORY is 500; a
\* deque(maxlen) drops its oldest element in the same way for every positive
\* maxlen, and the model keeps the cap small enough to be reached.
MAX_HISTORY == MaxHistory

MaxCandleTicks == 5

MaxQueueSize == 2

MaxSubscribers == 3

MaxPublish == 3

MaxFrames == 5

MaxEvaluations == 3

MaxQueries == 2

MaxCloses == 23

LastMove == 17

\* Connections refused in a row.
MaxAttempts == 7

MaxTfCandles == 2

candle_interval_seconds == 5

max_candles_buffer == 200

\* settings.signal_rr_ratio = 2.0
signal_rr_ratio == 2

Symbols == {"R_100", "R_75"}

None == 0

\* settings.max_trade_duration * 60 (minutes -> seconds)
max_duration_seconds == max_trade_duration * 60

\* Quotes offered to the simulator: at, between and beyond the levels below.
Prices == 1 .. 3

\* Tick epochs: 0 and max_duration_seconds give elapsed times 0 (no expiry),
\* exactly max_duration_seconds (expiry boundary) and a negative one (a tick
\* whose epoch goes backwards).
Epochs == {0, max_duration_seconds}

\* Signals handed to open_trade: a BUY and a SELL with the levels around the
\* entry, and a BUY whose stop-loss and take-profit coincide, so that one
\* quote can hit both levels.
Signals ==
    { [id |-> "5b1e", symbol |-> "R_100", signal_type |-> "BUY",
       entry |-> 2, stop_loss |-> 1, take_profit |-> 3],
      [id |-> "c07a", symbol |-> "R_75",  signal_type |-> "SELL",
       entry |-> 2, stop_loss |-> 3, take_profit |-> 1],
      [id |-> "9d42", symbol |-> "R_100", signal_type |-> "BUY",
       entry |-> 2, stop_loss |-> 2, take_profit |-> 2] }

(***************************************************************************)
(* SimulatedTrade (domain/entities/trade.py)                               *)
(***************************************************************************)
ClosedStatus == {"PROFIT", "LOSS", "EXPIRED"}

is_pending(t) == t.status = "PENDING"

is_open(t) == t.status = "OPEN"

is_closed(t) == t.status \in ClosedStatus

\* SimulatedTrade.__init__: the planned levels come from the signal, the
\* realised fields start at 0 and the status at PENDING.  The id is a fresh
\* uuid in the source; here the next free index of the heap.
SimulatedTrade(id, signal, max_dur) ==
    [ id                   |-> id,
      symbol               |-> signal.symbol,
      signal_type          |-> signal.signal_type,
      signal_id            |-> signal.id,
      signal_entry         |-> signal.entry,
      stop_loss            |-> signal.stop_loss,
      take_profit          |-> signal.take_profit,
      entry_price          |-> 0,
      close_price          |-> 0,
      status               |-> "PENDING",
      open_timestamp       |-> 0,
      close_timestamp      |-> 0,
      pnl_percent          |-> <<0, 1>>,
      duration_seconds     |-> 0,
      max_duration_seconds |-> max_dur ]

\* SimulatedTrade.activate: PENDING -> OPEN (the assert guards the status).
activate(t, entry_price, timestamp) ==
    [t EXCEPT !.entry_price = entry_price,
              !.open_timestamp = timestamp,
              !.status = "OPEN"]

\* The PnL assignment of close(): left at its initial 0 when entry_price = 0.
pnl_of(t, close_price) ==
    IF t.entry_price # 0
    THEN IF t.signal_type = "BUY"
         THEN <<(close_price - t.entry_price) * 100, t.entry_price>>
         ELSE <<(t.entry_price - close_price) * 100, t.entry_price>>
    ELSE t.pnl_percent

\* SimulatedTrade.close: OPEN -> PROFIT | LOSS | EXPIRED.
close(t, close_price, status, timestamp) ==
    [t EXCEPT !.close_price = close_price,
              !.status = status,
              !.close_timestamp = timestamp,
              !.duration_seconds = timestamp - t.open_timestamp,
              !.pnl_percent = pnl_of(t, close_price)]

(***************************************************************************)
(* TradeStateManager (state/trade_state.py)                                *)
(***************************************************************************)
has_active_trade(active, symbol) == symbol \in DOMAIN active

get_active_trade(active, symbol) ==
    IF symbol \in DOMAIN active THEN active[symbol] ELSE None

\* dict assignment  d[k] = v
DictPut(d, k, v) == [x \in (DOMAIN d) \cup {k} |-> IF x = k THEN v ELSE d[x]]

\* d.get(k, default)
DictGet(d, k, default) == IF k \in DOMAIN d THEN d[k] ELSE default

\* del d[k]
DictDel(d, k) == [x \in (DOMAIN d) \ {k} |-> d[x]]

\* deque(maxlen = n).append(x)
DequeAppend(q, x, n) ==
    IF Len(q) >= n THEN Append(Tail(q), x) ELSE Append(q, x)

\* register_trade: compare-and-set of the symbol's slot.
register_trade_overwrite(active, trade) ==
    [ok |-> TRUE, active |-> DictPut(active, trade.symbol, trade.id)]

register_trade(active, trade) ==
    IF trade.symbol \in DOMAIN active
    THEN [ok |-> FALSE, active |-> active]
    ELSE [ok |-> TRUE, active |-> DictPut(active, trade.symbol, trade.id)]

\* archive_trade: active slot -> closed history (S is the simulator state).
\* archive_trade that leaves the active slot as it is.
archive_trade_keep(S, trade) ==
    LET hist == IF trade.symbol \in DOMAIN S.closed
                THEN S.closed[trade.symbol] ELSE <<>>
    IN  [S EXCEPT !.closed = DictPut(S.closed, trade.symbol,
                                     DequeAppend(hist, trade.id, MAX_HISTORY)),
                  !.closed_keys = IF trade.symbol \in DOMAIN S.closed
                                  THEN @ ELSE Append(@, trade.symbol)]

archive_trade(S, trade) ==
    LET act == IF trade.symbol \in DOMAIN S.active
                  /\ S.active[trade.symbol] = trade.id
               THEN DictDel(S.active, trade.symbol)
               ELSE S.active
        hist == IF trade.symbol \in DOMAIN S.closed
                THEN S.closed[trade.symbol] ELSE <<>>
    IN  [S EXCEPT !.active = act,
                  !.closed = DictPut(S.closed, trade.symbol,
                                     DequeAppend(hist, trade.id, MAX_HISTORY)),
                  !.closed_keys = IF trade.symbol \in DOMAIN S.closed
                                  THEN @ ELSE Append(@, trade.symbol)]

(***************************************************************************)
(* TradeSimulator (services/trade_simulator.py)                            *)
(***************************************************************************)
\* _SimulatorStats.record_close
record_close(stats, trade) ==
    IF trade.status = "PROFIT"
    THEN [stats EXCEPT !.profit_count = @ + 1]
    ELSE IF trade.status = "LOSS"
    THEN [stats EXCEPT !.loss_count = @ + 1]
    ELSE IF trade.status = "EXPIRED"
    THEN [stats EXCEPT !.expired_count = @ + 1]
    ELSE stats

\* The simulator, its trade state and the trade objects, as one value; ret is
\* what the last call returned (a trade id, or None).
SimState ==
    [ trades |-> trades, active |-> active_trades, closed |-> closed_trades,
      closed_keys |-> closed_keys, stats |-> sim_stats, ret |-> None ]

\* open_trade without its guards: a PENDING trade is created and put in the
\* slot whatever the slot holds.
open_trade_unguarded(S, signal) ==
    LET id    == Len(S.trades) + 1
        trade == SimulatedTrade(id, signal, max_duration_seconds)
    IN  [S EXCEPT !.trades = Append(S.trades, trade),
                  !.active = DictPut(S.active, signal.symbol, id),
                  !.stats.trades_opened = @ + 1,
                  !.ret = id]

\* TradeSimulator.open_trade
open_trade(S, signal) ==
    IF has_active_trade(S.active, signal.symbol)
    THEN [S EXCEPT !.stats.signals_ignored = @ + 1, !.ret = None]
    ELSE LET id    == Len(S.trades) + 1
             trade == SimulatedTrade(id, signal, max_duration_seconds)
             reg   == register_trade(S.active, trade)
         IN  IF ~reg.ok
             THEN [S EXCEPT !.ret = None]
             ELSE [S EXCEPT !.trades = Append(S.trades, trade),
                            !.active = reg.active,
                            !.stats.trades_opened = @ + 1,
                            !.ret = id]

\* The four statements every closing branch of evaluate_tick runs:
\* trade.close, archive_trade, record_close (and the stats notification,
\* which touches no state of the simulator).
close_and_archive(S, id, price, status, timestamp) ==
    LET t  == close(S.trades[id], price, status, timestamp)
        S1 == [S EXCEPT !.trades[id] = t]
        S2 == archive_trade(S1, t)
    IN  [S2 EXCEPT !.stats = record_close(S2.stats, t), !.ret = id]

expired(trade, timestamp) ==
    timestamp - trade.open_timestamp >= trade.max_duration_seconds

sl_hit(trade, price) ==
    \/ trade.signal_type = "BUY" /\ price <= trade.stop_loss
    \/ trade.signal_type = "SELL" /\ price >= trade.stop_loss

tp_hit(trade, price) ==
    \/ trade.signal_type = "BUY" /\ price >= trade.take_profit
    \/ trade.signal_type = "SELL" /\ price <= trade.take_profit

\* The closing checks of evaluate_tick on an OPEN trade, in source order.
evaluate_open_tp_first(S, id, price, timestamp) ==
    LET trade == S.trades[id]
    IN  IF tp_hit(trade, price)
        THEN close_and_archive(S, id, price, "PROFIT", timestamp)
        ELSE IF sl_hit(trade, price)
        THEN close_and_archive(S, id, price, "LOSS", timestamp)
        ELSE IF expired(trade, timestamp)
        THEN close_and_archive(S, id, price, "EXPIRED", timestamp)
        ELSE [S EXCEPT !.ret = None]

evaluate_open(S, id, price, timestamp) ==
    LET trade == S.trades[id]
    IN  IF expired(trade, timestamp)
        THEN close_and_archive(S, id, price, "EXPIRED", timestamp)
        ELSE IF sl_hit(trade, price)
        THEN close_and_archive(S, id, price, "LOSS", timestamp)
        ELSE IF tp_hit(trade, price)
        THEN close_and_archive(S, id, price, "PROFIT", timestamp)
        ELSE [S EXCEPT !.ret = None]

\* evaluate_tick whose PENDING branch does not return: the activating tick is
\* also evaluated against expiry, SL and TP.
evaluate_tick_fallthrough(S, symbol, price, timestamp) ==
    LET id == get_active_trade(S.active, symbol)
    IN  IF id = None
        THEN [S EXCEPT !.ret = None]
        ELSE IF is_pending(S.trades[id])
        THEN evaluate_open(
                 [S EXCEPT !.trades[id] = activate(@, price, timestamp)],
                 id, price, timestamp)
        ELSE evaluate_open(S, id, price, timestamp)

\* TradeSimulator.evaluate_tick.  A slot never holds a closed trade; were it
\* to, the assert raises before anything is changed.
evaluate_tick(S, symbol, price, timestamp) ==
    LET id == get_active_trade(S.active, symbol)
    IN  IF id = None
        THEN [S EXCEPT !.ret = None]
        ELSE IF is_pending(S.trades[id])
        THEN [S EXCEPT !.trades[id] = activate(@, price, timestamp),
                       !.ret = None]
        ELSE IF ~is_open(S.trades[id])
        THEN [S EXCEPT !.ret = None]
        ELSE evaluate_open(S, id, price, timestamp)

(***************************************************************************)
(* EventBus (infrastructure/event_bus.py)                                  *)
(***************************************************************************)
\* EventBus(max_queue_size): the capacity every subscriber queue is built
\* with.
max_queue_size == MaxQueueSize

\* asyncio.Queue.full()
full(q, maxsize) == maxsize > 0 /\ Len(q) >= maxsize

\* One turn of publish's loop when a full queue is left as it is: put_nowait
\* raises QueueFull and the new payload is the one lost.
deliver_drop_newest(q, data, maxsize) ==
    IF full(q, maxsize) THEN q ELSE Append(q, data)

\* One turn of publish's loop: get_nowait on a full queue, then put_nowait,
\* whose QueueFull is caught and logged.
deliver(q, data, maxsize) ==
    LET q1 == IF full(q, maxsize) THEN Tail(q) ELSE q
    IN  IF full(q1, maxsize) THEN q1 ELSE Append(q1, data)

\* subscribers.get(topic, [])
subscribers_of(subs, topic) == DictGet(subs, topic, <<>>)

RECURSIVE publish_from(_, _, _, _, _)
\* The loop of publish from the i-th subscriber of the list on.
publish_from(Q, list, i, data, maxsize) ==
    IF i > Len(list)
    THEN Q
    ELSE publish_from([Q EXCEPT ![list[i]] = deliver(@, data, maxsize)],
                      list, i + 1, data, maxsize)

RECURSIVE publish_until_full(_, _, _, _, _)
\* A publish loop that gives up at the first full queue it meets.
publish_until_full(Q, list, i, data, maxsize) ==
    IF i > Len(list) \/ full(Q[list[i]], maxsize)
    THEN Q
    ELSE publish_until_full([Q EXCEPT ![list[i]] = Append(@, data)],
                            list, i + 1, data, maxsize)

publish_stop_at_full(subs, Q, topic, data, maxsize) ==
    publish_until_full(Q, subscribers_of(subs, topic), 1, data, maxsize)

\* EventBus.publish: the queues after the call.
publish(subs, Q, topic, data, maxsize) ==
    publish_from(Q, subscribers_of(subs, topic), 1, data, maxsize)

\* EventBus.subscribe: a new queue, appended to the topic's list.
subscribe(subs, Q, topic) ==
    [ subscribers |-> DictPut(subs, topic,
                              Append(subscribers_of(subs, topic), Len(Q) + 1)),
      queues |-> Append(Q, <<>>),
      queue |-> Len(Q) + 1 ]

InitBus ==
    /\ subscribers = <<>>
    /\ queues = <<>>
    /\ published = <<>>
    /\ subscribed_at = <<>>
    /\ delivered = <<>>
    /\ evicted = <<>>

(***************************************************************************)
(* CandleBuilder (services/candle_builder.py) and the closed-candle buffer *)
(* of MarketState (state/market_state.py)                                  *)
(***************************************************************************)
Max(a, b) == IF a >= b THEN a ELSE b

Min(a, b) == IF a <= b THEN a ELSE b

\* _BuildingCandle.update.  A new building candle starts with
\* high = -inf, low = +inf and tick_count = 0 and is updated at once, so its
\* first update gives high = low = price.
update(b, price) ==
    [b EXCEPT !.open = IF b.tick_count = 0 THEN price ELSE @,
              !.high = IF b.tick_count = 0 THEN price ELSE Max(@, price),
              !.low = IF b.tick_count = 0 THEN price ELSE Min(@, price),
              !.close = price,
              !.tick_count = @ + 1]

\* _BuildingCandle(symbol, open_time, close_time)
BuildingCandle(symbol, open_time, close_time) ==
    [ symbol |-> symbol, open_time |-> open_time, close_time |-> close_time,
      open |-> 0, high |-> 0, low |-> 0, close |-> 0, tick_count |-> 0 ]

\* _BuildingCandle.freeze
freeze(b) ==
    [ symbol |-> b.symbol, timestamp |-> b.open_time, open |-> b.open,
      high |-> b.high, low |-> b.low, close |-> b.close,
      tick_count |-> b.tick_count, interval |-> b.close_time - b.open_time ]

\* Optional[Candle]: None
NoCandle == <<>>

\* CandleBuilder._align_time without the alignment.
align_time_identity(epoch, interval) == epoch

\* CandleBuilder._align_time: math.floor(epoch / interval) * interval
align_time(epoch, interval) == (epoch \div interval) * interval

\* A fresh building candle for the tick's bucket, seeded with the tick.
open_candle(tick, interval) ==
    LET open_time == align_time(tick.epoch, interval)
    IN  update(BuildingCandle(tick.symbol, open_time, open_time + interval),
               tick.quote)

\* process_tick that also closes the building candle on a tick older than
\* its open_time.
process_tick_close_on_old(B, tick, interval) ==
    IF tick.symbol \notin DOMAIN B
    THEN [building |-> DictPut(B, tick.symbol, open_candle(tick, interval)),
          closed |-> NoCandle]
    ELSE IF tick.epoch < B[tick.symbol].close_time
            /\ tick.epoch >= B[tick.symbol].open_time
    THEN [building |-> [B EXCEPT ![tick.symbol] = update(@, tick.quote)],
          closed |-> NoCandle]
    ELSE [building |-> [B EXCEPT ![tick.symbol] = open_candle(tick, interval)],
          closed |-> <<freeze(B[tick.symbol])>>]

\* process_tick that folds the closing tick into the candle it closes.
process_tick_fold_closing(B, tick, interval) ==
    IF tick.symbol \notin DOMAIN B
    THEN [building |-> DictPut(B, tick.symbol, open_candle(tick, interval)),
          closed |-> NoCandle]
    ELSE IF tick.epoch < B[tick.symbol].close_time
    THEN [building |-> [B EXCEPT ![tick.symbol] = update(@, tick.quote)],
          closed |-> NoCandle]
    ELSE [building |-> [B EXCEPT ![tick.symbol] = open_candle(tick, interval)],
          closed |-> <<freeze(update(B[tick.symbol], tick.quote))>>]

\* CandleBuilder.process_tick: B is _building; closed is the returned
\* Optional[Candle], <<candle>> or NoCandle.
process_tick(B, tick, interval) ==
    IF tick.symbol \notin DOMAIN B
    THEN [building |-> DictPut(B, tick.symbol, open_candle(tick, interval)),
          closed |-> NoCandle]
    ELSE IF tick.epoch < B[tick.symbol].close_time
    THEN [building |-> [B EXCEPT ![tick.symbol] = update(@, tick.quote)],
          closed |-> NoCandle]
    ELSE [building |-> [B EXCEPT ![tick.symbol] = open_candle(tick, interval)],
          closed |-> <<freeze(B[tick.symbol])>>]

\* MarketStateManager.add_candle: append to the symbol's bounded deque.
add_candle(C, candle) ==
    DictPut(C, candle.symbol,
            DequeAppend(DictGet(C, candle.symbol, <<>>), candle,
                        max_candles_buffer))

(***************************************************************************)
(* TimeframeAggregator (services/timeframe_aggregator.py)                  *)
(***************************************************************************)
\* settings.available_timeframes, in the order the aggregator visits them.
available_timeframes == <<"5m", "15m", "30m", "1h">>

TIMEFRAME_SECONDS ==
    [tf \in {"5m", "15m", "30m", "1h"} |->
        CASE tf = "5m" -> 300
          [] tf = "15m" -> 900
          [] tf = "30m" -> 1800
          [] tf = "1h" -> 3600]

\* _BuildingTFCandle(symbol, timeframe, open_time, close_time)
BuildingTFCandle(symbol, timeframe, open_time, close_time) ==
    [ symbol |-> symbol, timeframe |-> timeframe, open_time |-> open_time,
      close_time |-> close_time, open |-> 0, high |-> 0, low |-> 0,
      close |-> 0, tick_count |-> 0 ]

\* _BuildingTFCandle.update_from_candle
update_from_candle(b, candle) ==
    [b EXCEPT !.open = IF b.tick_count = 0 THEN candle.open ELSE @,
              !.high = IF b.tick_count = 0 THEN candle.high
                       ELSE Max(@, candle.high),
              !.low = IF b.tick_count = 0 THEN candle.low
                      ELSE Min(@, candle.low),
              !.close = candle.close,
              !.tick_count = @ + 1]

\* A fresh building TF candle for the base candle's bucket, seeded with it.
open_tf_candle(candle, tf) ==
    LET open_time == align_time(candle.timestamp, TIMEFRAME_SECONDS[tf])
    IN  update_from_candle(
            BuildingTFCandle(candle.symbol, tf, open_time,
                             open_time + TIMEFRAME_SECONDS[tf]),
            candle)

\* One timeframe of process_candle that never rolls over: the base candle is
\* folded into the building TF candle whatever its timestamp.
process_timeframe_no_roll(TB, candle, tf) ==
    LET key == <<candle.symbol, tf>>
    IN  IF key \notin DOMAIN TB
        THEN [building |-> DictPut(TB, key, open_tf_candle(candle, tf)),
              closed |-> <<>>]
        ELSE [building |-> [TB EXCEPT ![key] = update_from_candle(@, candle)],
              closed |-> <<>>]

\* One timeframe of process_candle: TB is _building; closed is <<>> or the
\* one pair <<tf, Candle>> appended to the returned list.
process_timeframe(TB, candle, tf) ==
    LET key == <<candle.symbol, tf>>
    IN  IF key \notin DOMAIN TB
        THEN [building |-> DictPut(TB, key, open_tf_candle(candle, tf)),
              closed |-> <<>>]
        ELSE IF candle.timestamp < TB[key].close_time
        THEN [building |-> [TB EXCEPT ![key] = update_from_candle(@, candle)],
              closed |-> <<>>]
        ELSE [building |-> [TB EXCEPT ![key] = open_tf_candle(candle, tf)],
              closed |-> << <<tf, freeze(TB[key])>> >>]

\* TimeframeAggregator.process_candle: the loop over the timeframes.
RECURSIVE process_candle(_, _, _)
process_candle(TB, candle, tfs) ==
    IF tfs = <<>>
    THEN [building |-> TB, closed |-> <<>>]
    ELSE LET r    == process_timeframe(TB, candle, Head(tfs))
             rest == process_candle(r.building, candle, Tail(tfs))
         IN  [building |-> rest.building, closed |-> r.closed \o rest.closed]

InitCandle ==
    /\ tf_building = <<>>
    /\ tf_folded = <<>>
    /\ tf_emitted = <<>>
    /\ building = <<>>
    /\ candles = <<>>
    /\ folded_ticks = <<>>
    /\ emitted_ticks = <<>>

(***************************************************************************)
(* SupportResistanceService (services/support_resistance_service.py)       *)
(*                                                                         *)
(* Prices are integers; the float products with the fractional settings    *)
(* (tolerance, multipliers) are compared after cross-multiplication, which *)
(* is exact.                                                               *)
(***************************************************************************)
\* settings.signal_sr_max_levels
sr_max_levels == 10

\* settings.signal_sr_tolerance_pct = 0.0015, as <<numerator, denominator>>
sr_tolerance_pct == <<15, 10000>>

\* settings.signal_breakout_candle_mult = 1.2
breakout_candle_mult == <<12, 10>>

\* settings.signal_consolidation_candles
consolidation_candles == 10

\* settings.signal_consolidation_atr_mult = 2.0
consolidation_atr_mult == 2

\* Optional[float]: None
NoLevel == <<>>

SetMax(S) == CHOOSE x \in S : \A y \in S : y <= x

SetMin(S) == CHOOSE x \in S : \A y \in S : x <= y

RECURSIVE SeqSum(_)
SeqSum(q) == IF q = <<>> THEN 0 ELSE q[1] + SeqSum(Tail(q))

\* list(buffer)[-n:]
LastN(q, n) ==
    IF Len(q) <= n THEN q ELSE SubSeq(q, Len(q) - n + 1, Len(q))

\* SymbolSRState(symbol, swing_highs, swing_lows)
SymbolSRState == [swing_highs |-> <<>>, swing_lows |-> <<>>]

\* SupportResistanceService._get_state
get_state(SR, symbol) == DictGet(SR, symbol, SymbolSRState)

\* update with the comparisons >= in place of >.
sr_update_loose(SR, candle, candles_buffer) ==
    IF Len(candles_buffer) < 3 THEN SR
    ELSE LET state == get_state(SR, candle.symbol)
             n == Len(candles_buffer)
             left == candles_buffer[n - 2]
             pivot == candles_buffer[n - 1]
             right == candles_buffer[n]
             highs == IF pivot.high >= left.high /\ pivot.high >= right.high
                      THEN DequeAppend(state.swing_highs,
                                       <<pivot.high, pivot.timestamp>>,
                                       sr_max_levels)
                      ELSE state.swing_highs
             lows == IF pivot.low <= left.low /\ pivot.low <= right.low
                     THEN DequeAppend(state.swing_lows,
                                      <<pivot.low, pivot.timestamp>>,
                                      sr_max_levels)
                     ELSE state.swing_lows
         IN  DictPut(SR, candle.symbol,
                     [swing_highs |-> highs, swing_lows |-> lows])

\* SupportResistanceService.update: the candle before the one just closed is
\* a swing point when its extreme is beyond both neighbours.
sr_update(SR, candle, candles_buffer) ==
    IF Len(candles_buffer) < 3 THEN SR
    ELSE LET state == get_state(SR, candle.symbol)
             n == Len(candles_buffer)
             left == candles_buffer[n - 2]
             pivot == candles_buffer[n - 1]
             right == candles_buffer[n]
             highs == IF pivot.high > left.high /\ pivot.high > right.high
                      THEN DequeAppend(state.swing_highs,
                                       <<pivot.high, pivot.timestamp>>,
                                       sr_max_levels)
                      ELSE state.swing_highs
             lows == IF pivot.low < left.low /\ pivot.low < right.low
                     THEN DequeAppend(state.swing_lows,
                                      <<pivot.low, pivot.timestamp>>,
                                      sr_max_levels)
                     ELSE state.swing_lows
         IN  DictPut(SR, candle.symbol,
                     [swing_highs |-> highs, swing_lows |-> lows])

\* get_nearest_support without the test s < price.
get_nearest_support_any(SR, symbol, price) ==
    LET lows == get_state(SR, symbol).swing_lows
        supports == {lows[i][1] : i \in DOMAIN lows}
    IN  IF supports = {} THEN NoLevel ELSE <<SetMax(supports)>>

\* get_nearest_support: the highest stored swing low strictly below price.
get_nearest_support(SR, symbol, price) ==
    LET lows == get_state(SR, symbol).swing_lows
        supports_below == {s \in {lows[i][1] : i \in DOMAIN lows} : s < price}
    IN  IF supports_below = {} THEN NoLevel ELSE <<SetMax(supports_below)>>

\* get_nearest_resistance: the lowest stored swing high strictly above price.
get_nearest_resistance(SR, symbol, price) ==
    LET highs == get_state(SR, symbol).swing_highs
        resistances_above == {r \in {highs[i][1] : i \in DOMAIN highs} :
                                 r > price}
    IN  IF resistances_above = {} THEN NoLevel
        ELSE <<SetMin(resistances_above)>>

\* get_last_swing_low
get_last_swing_low(SR, symbol) ==
    LET lows == get_state(SR, symbol).swing_lows
    IN  IF lows = <<>> THEN NoLevel ELSE <<lows[Len(lows)][1]>>

\* get_last_swing_high
get_last_swing_high(SR, symbol) ==
    LET highs == get_state(SR, symbol).swing_highs
    IN  IF highs = <<>> THEN NoLevel ELSE <<highs[Len(highs)][1]>>

\* is_bounce_on_support: low <= support + support * tolerance, close above
\* the support, bullish candle.
is_bounce_on_support(candle, support) ==
    /\ support # NoLevel
    /\ candle.low * sr_tolerance_pct[2]
           <= support[1] * (sr_tolerance_pct[2] + sr_tolerance_pct[1])
    /\ candle.close > support[1]
    /\ candle.close > candle.open

\* is_rejection_at_resistance
is_rejection_at_resistance(candle, resistance) ==
    /\ resistance # NoLevel
    /\ candle.high * sr_tolerance_pct[2]
           >= resistance[1] * (sr_tolerance_pct[2] - sr_tolerance_pct[1])
    /\ candle.close < resistance[1]
    /\ candle.close < candle.open

\* compute_avg_range: the mean of high - low over the last 10 candles, kept
\* as <<sum, count>>; 0.0 for an empty buffer.
compute_avg_range(candles_buffer) ==
    LET recent == LastN(candles_buffer, 10)
    IN  IF recent = <<>> THEN <<0, 1>>
        ELSE <<SeqSum([i \in DOMAIN recent |->
                          recent[i].high - recent[i].low]),
               Len(recent)>>

\* candle_range > avg_range * breakout_candle_mult
strong_candle(candle, avg_range) ==
    (candle.high - candle.low) * avg_range[2] * breakout_candle_mult[2]
        > avg_range[1] * breakout_candle_mult[1]

\* is_breakout_above
is_breakout_above(candle, resistance, avg_range) ==
    /\ resistance # NoLevel
    /\ avg_range[1] > 0
    /\ candle.close > resistance[1]
    /\ strong_candle(candle, avg_range)

\* is_breakout_below
is_breakout_below(candle, support, avg_range) ==
    /\ support # NoLevel
    /\ avg_range[1] > 0
    /\ candle.close < support[1]
    /\ strong_candle(candle, avg_range)

\* is_consolidating: fewer than n candles, or no movement, or the range of
\* the last n candles is below the mean candle range times the multiplier.
is_consolidating(candles_buffer) ==
    LET n == consolidation_candles
        recent == LastN(candles_buffer, n)
        highs == {recent[i].high : i \in DOMAIN recent}
        lows == {recent[i].low : i \in DOMAIN recent}
        total_range == SetMax(highs) - SetMin(lows)
        range_sum == SeqSum([i \in DOMAIN recent |->
                                recent[i].high - recent[i].low])
    IN  \/ Len(recent) < n
        \/ range_sum = 0
        \/ total_range * n < range_sum * consolidation_atr_mult

(***************************************************************************)
(* SignalEngine (services/signal_engine.py), as main.py constructs it      *)
(* (settings values, no ML filter)                                         *)
(***************************************************************************)
COND_EMA_CROSS == "ema_cross"

COND_EMA_TREND == "ema_trend"

COND_RSI_REVERSAL == "rsi_reversal"

COND_SR_BOUNCE == "sr_bounce"

COND_BREAKOUT == "breakout"

\* settings.signal_min_confirmations
min_confirmations == 2

\* settings.signal_rr_ratio = 2.0
rr_ratio == signal_rr_ratio

\* settings.signal_min_rr = 1.0
min_rr == 1

\* settings.signal_rsi_oversold = 35.0
rsi_oversold == 35

\* settings.signal_rsi_overbought = 65.0
rsi_overbought == 65

\* settings.signal_min_sl_pct = 0.0002, as <<numerator, denominator>>
min_sl_pct == <<2, 10000>>

\* settings.signal_cooldown_candles
cooldown_candles == 3

\* Optional[Signal]: None
NoSignal == <<>>

\* An indicator value that is None (warm-up not finished)
NoValue == <<>>

\* The engine's mutable fields as one record.
EngineState ==
    [ prev_indicators |-> prev_indicators, last_signal_ts |-> last_signal_ts,
      recent_signals |-> recent_signals, stats |-> engine_stats ]

\* One engine as a value: the S/R levels, the SignalEngine fields and the
\* history of its emissions.
EngineRun ==
    [ sr_states |-> sr_states, engine |-> EngineState,
      emissions |-> emissions ]

\* _check_ema_cross: the sign of ema_9 - ema_21 changed between the previous
\* and the current candle.
check_ema_cross(ema_9, ema_21, prev) ==
    IF prev.ema_9 = NoValue \/ prev.ema_21 = NoValue
    THEN [buy |-> <<>>, sell |-> <<>>]
    ELSE LET prev_diff == prev.ema_9[1] - prev.ema_21[1]
             curr_diff == ema_9 - ema_21
         IN  IF prev_diff < 0 /\ curr_diff > 0
             THEN [buy |-> <<COND_EMA_CROSS>>, sell |-> <<>>]
             ELSE IF prev_diff > 0 /\ curr_diff < 0
             THEN [buy |-> <<>>, sell |-> <<COND_EMA_CROSS>>]
             ELSE [buy |-> <<>>, sell |-> <<>>]

\* _check_ema_trend
check_ema_trend(ema_9, ema_21) ==
    IF ema_9 > ema_21 THEN [buy |-> <<COND_EMA_TREND>>, sell |-> <<>>]
    ELSE IF ema_9 < ema_21 THEN [buy |-> <<>>, sell |-> <<COND_EMA_TREND>>]
    ELSE [buy |-> <<>>, sell |-> <<>>]

\* _check_rsi_reversal
check_rsi_reversal(rsi, prev) ==
    IF prev.rsi_14 = NoValue THEN [buy |-> <<>>, sell |-> <<>>]
    ELSE [ buy |-> IF rsi < rsi_oversold /\ rsi > prev.rsi_14[1]
                   THEN <<COND_RSI_REVERSAL>> ELSE <<>>,
           sell |-> IF rsi > rsi_overbought /\ rsi < prev.rsi_14[1]
                    THEN <<COND_RSI_REVERSAL>> ELSE <<>> ]

\* _check_sr_bounce
check_sr_bounce(candle, support, resistance) ==
    [ buy |-> IF is_bounce_on_support(candle, support)
              THEN <<COND_SR_BOUNCE>> ELSE <<>>,
      sell |-> IF is_rejection_at_resistance(candle, resistance)
               THEN <<COND_SR_BOUNCE>> ELSE <<>> ]

\* _check_breakout
check_breakout(candle, support, resistance, avg_range) ==
    [ buy |-> IF is_breakout_above(candle, resistance, avg_range)
              THEN <<COND_BREAKOUT>> ELSE <<>>,
      sell |-> IF is_breakout_below(candle, support, avg_range)
               THEN <<COND_BREAKOUT>> ELSE <<>> ]

\* round(x, 1) of the quotient num / den >= 0, in tenths, ties to even.
round_tenths(num, den) ==
    LET whole == num \div den
        q == ((num % den) * 10) \div den
        r == ((num % den) * 10) % den
        tenth == IF 2 * r > den THEN q + 1
                 ELSE IF 2 * r = den THEN q + (q % 2)
                 ELSE q
    IN  whole * 10 + tenth

\* The estimated duration in tenths of a minute:
\* round((tp_distance / avg_range * interval) / 60.0, 1), 0.0 without range.
estimated_duration(tp_distance, avg_range, interval) ==
    IF avg_range[1] > 0
    THEN round_tenths(tp_distance * avg_range[2] * interval,
                      avg_range[1] * 60)
    ELSE 0

\* The minimum stop distance filter switched off.
sl_too_close_never(sl_distance, entry) == FALSE

\* sl_pct < min_sl_pct, with sl_pct = sl_distance / entry if entry != 0
\* else 0 (sl_distance > 0 here, so a negative entry gives a negative sl_pct).
sl_too_close(sl_distance, entry) ==
    IF entry <= 0 THEN TRUE
    ELSE sl_distance * min_sl_pct[2] < min_sl_pct[1] * entry

\* _compute_risk_and_generate stamping candle_timestamp with the wall clock
\* instead of the candle's own timestamp.
compute_risk_and_generate_stamped(SR, candle, signal_type, conditions, symbol, avg_range, id, now) ==
    LET entry == candle.close
        nearest == IF signal_type = "BUY"
                   THEN get_nearest_support(SR, symbol, entry)
                   ELSE get_nearest_resistance(SR, symbol, entry)
        sl_level == IF nearest # NoLevel THEN nearest
                    ELSE IF signal_type = "BUY"
                    THEN get_last_swing_low(SR, symbol)
                    ELSE get_last_swing_high(SR, symbol)
        no_valid_level ==
            \/ sl_level = NoLevel
            \/ signal_type = "BUY" /\ sl_level[1] >= entry
            \/ signal_type # "BUY" /\ sl_level[1] <= entry
        stop_loss == sl_level[1]
        sl_distance == IF signal_type = "BUY" THEN entry - stop_loss
                       ELSE stop_loss - entry
        tp_distance == sl_distance * rr_ratio
        take_profit == IF signal_type = "BUY" THEN entry + tp_distance
                       ELSE entry - tp_distance
        actual_rr == IF sl_distance > 0 THEN <<tp_distance, sl_distance>>
                     ELSE <<0, 1>>
    IN  IF no_valid_level THEN [signal |-> NoSignal, filtered_rr |-> 0]
        ELSE IF sl_too_close(sl_distance, entry)
        THEN [signal |-> NoSignal, filtered_rr |-> 1]
        ELSE IF actual_rr[1] < min_rr * actual_rr[2]
        THEN [signal |-> NoSignal, filtered_rr |-> 1]
        ELSE [ signal |->
                 << [ id |-> id, symbol |-> symbol,
                      signal_type |-> signal_type, entry |-> entry,
                      stop_loss |-> stop_loss, take_profit |-> take_profit,
                      rr |-> actual_rr, timestamp |-> now,
                      candle_timestamp |-> now,
                      conditions |-> conditions,
                      confidence |-> Len(conditions),
                      estimated_duration |->
                          estimated_duration(tp_distance, avg_range,
                                             candle.interval) ] >>,
               filtered_rr |-> 0 ]

\* _compute_risk_and_generate: entry, stop loss from the swing levels, take
\* profit at rr_ratio times the stop distance, then the two filters.
\* Signal.generate_id() (uuid4) and time.time() are inputs: id and now.
\* rr is the exact quotient <<tp_distance, sl_distance>>.
compute_risk_and_generate(SR, candle, signal_type, conditions, symbol, avg_range, id, now) ==
    LET entry == candle.close
        nearest == IF signal_type = "BUY"
                   THEN get_nearest_support(SR, symbol, entry)
                   ELSE get_nearest_resistance(SR, symbol, entry)
        sl_level == IF nearest # NoLevel THEN nearest
                    ELSE IF signal_type = "BUY"
                    THEN get_last_swing_low(SR, symbol)
                    ELSE get_last_swing_high(SR, symbol)
        no_valid_level ==
            \/ sl_level = NoLevel
            \/ signal_type = "BUY" /\ sl_level[1] >= entry
            \/ signal_type # "BUY" /\ sl_level[1] <= entry
        stop_loss == sl_level[1]
        sl_distance == IF signal_type = "BUY" THEN entry - stop_loss
                       ELSE stop_loss - entry
        tp_distance == sl_distance * rr_ratio
        take_profit == IF signal_type = "BUY" THEN entry + tp_distance
                       ELSE entry - tp_distance
        actual_rr == IF sl_distance > 0 THEN <<tp_distance, sl_distance>>
                     ELSE <<0, 1>>
    IN  IF no_valid_level THEN [signal |-> NoSignal, filtered_rr |-> 0]
        ELSE IF sl_too_close(sl_distance, entry)
        THEN [signal |-> NoSignal, filtered_rr |-> 1]
        ELSE IF actual_rr[1] < min_rr * actual_rr[2]
        THEN [signal |-> NoSignal, filtered_rr |-> 1]
        ELSE [ signal |->
                 << [ id |-> id, symbol |-> symbol,
                      signal_type |-> signal_type, entry |-> entry,
                      stop_loss |-> stop_loss, take_profit |-> take_profit,
                      rr |-> actual_rr, timestamp |-> now,
                      candle_timestamp |-> candle.timestamp,
                      conditions |-> conditions,
                      confidence |-> Len(conditions),
                      estimated_duration |->
                          estimated_duration(tp_distance, avg_range,
                                             candle.interval) ] >>,
               filtered_rr |-> 0 ]

\* The cooldown test of evaluate with the interval fixed to the base
\* candle's instead of the evaluated candle's.
in_cooldown_base_interval(E, candle) ==
    candle.timestamp - DictGet(E.last_signal_ts, candle.symbol, 0)
        < cooldown_candles * candle_interval_seconds

\* evaluate, step 2: candle.timestamp - last_signal_ts < cooldown, where the
\* cooldown is cooldown_candles intervals of the candle under evaluation.
in_cooldown(E, candle) ==
    candle.timestamp - DictGet(E.last_signal_ts, candle.symbol, 0)
        < cooldown_candles * candle.interval

\* evaluate, step 6, with SELL tested before BUY.
direction_sell_first(buy_conditions, sell_conditions) ==
    IF Len(sell_conditions) >= min_confirmations THEN "SELL"
    ELSE IF Len(buy_conditions) >= min_confirmations THEN "BUY"
    ELSE "NONE"

\* evaluate, step 6: BUY when the buy conditions reach min_confirmations,
\* else SELL when the sell conditions do, else no direction.
direction(buy_conditions, sell_conditions) ==
    IF Len(buy_conditions) >= min_confirmations THEN "BUY"
    ELSE IF Len(sell_conditions) >= min_confirmations THEN "SELL"
    ELSE "NONE"

\* evaluate, steps 4: the five checks, in the order the code runs them.
conditions_of(SR, candle, indicators, prev, candles_buffer) ==
    LET ema_9 == indicators.ema_9[1]
        ema_21 == indicators.ema_21[1]
        rsi == indicators.rsi_14[1]
        support == get_nearest_support(SR, candle.symbol, candle.close)
        resistance == get_nearest_resistance(SR, candle.symbol, candle.close)
        avg_range == compute_avg_range(candles_buffer)
        c1 == check_ema_cross(ema_9, ema_21, prev)
        c2 == check_ema_trend(ema_9, ema_21)
        c3 == check_rsi_reversal(rsi, prev)
        c4 == check_sr_bounce(candle, support, resistance)
        c5 == check_breakout(candle, support, resistance, avg_range)
    IN  [ buy |-> c1.buy \o c2.buy \o c3.buy \o c4.buy \o c5.buy,
          sell |-> c1.sell \o c2.sell \o c3.sell \o c4.sell \o c5.sell ]

\* SignalEngine.evaluate from step 6 on, given the condition lists of
\* steps 4 and 5.
decide(E, SR, candle, indicators, candles_buffer, id, now, conds) ==
    LET symbol == candle.symbol
        counted == [E.stats EXCEPT !.total_evaluated = @ + 1]
        stored == DictPut(E.prev_indicators, symbol, indicators)
        signal_type == direction(conds.buy, conds.sell)
        risk == compute_risk_and_generate(
                    SR, candle, signal_type,
                    IF signal_type = "BUY" THEN conds.buy ELSE conds.sell,
                    symbol, compute_avg_range(candles_buffer), id, now)
    IN  IF signal_type = "NONE"
        THEN [ engine |-> [E EXCEPT !.prev_indicators = stored,
                                    !.stats = counted],
               signal |-> NoSignal, buy |-> conds.buy, sell |-> conds.sell ]
        ELSE IF risk.signal = NoSignal
        THEN [ engine |->
                 [E EXCEPT !.prev_indicators = stored,
                           !.stats = [counted EXCEPT !.total_filtered_rr =
                                                     @ + risk.filtered_rr]],
               signal |-> NoSignal, buy |-> conds.buy, sell |-> conds.sell ]
        ELSE [ engine |->
                 [ prev_indicators |-> stored,
                   last_signal_ts |->
                       DictPut(E.last_signal_ts, symbol, candle.timestamp),
                   recent_signals |->
                       DictPut(E.recent_signals, symbol,
                               DequeAppend(
                                   DictGet(E.recent_signals, symbol, <<>>),
                                   risk.signal[1], 50)),
                   stats |->
                       [counted EXCEPT
                           !.total_signals = @ + 1,
                           !.signals_by_type[signal_type] = @ + 1] ],
               signal |-> risk.signal,
               buy |-> conds.buy, sell |-> conds.sell ]

\* evaluate that returns from the cooldown test without storing the snapshot.
evaluate_cooldown_first(E, SR, candle, indicators, candles_buffer, id, now) ==
    LET symbol == candle.symbol
        counted == [E.stats EXCEPT !.total_evaluated = @ + 1]
        stored == DictPut(E.prev_indicators, symbol, indicators)
        skip(stats) ==
            [ engine |-> [E EXCEPT !.prev_indicators = stored,
                                   !.stats = stats],
              signal |-> NoSignal, buy |-> <<>>, sell |-> <<>> ]
        has_prev == symbol \in DOMAIN E.prev_indicators
        prev == E.prev_indicators[symbol]
    IN  IF \/ indicators.ema_9 = NoValue
           \/ indicators.ema_21 = NoValue
           \/ indicators.rsi_14 = NoValue
        THEN skip(counted)
        ELSE IF ~has_prev \/ prev.ema_9 = NoValue
        THEN skip(counted)
        ELSE IF in_cooldown(E, candle)
        THEN [ engine |-> [E EXCEPT !.stats = counted],
               signal |-> NoSignal, buy |-> <<>>, sell |-> <<>> ]
        ELSE IF is_consolidating(candles_buffer)
        THEN skip([counted EXCEPT !.total_filtered_consolidation = @ + 1])
        ELSE CHOOSE result \in
                 { decide(E, SR, candle, indicators, candles_buffer, id, now,
                          conds) :
                     conds \in {conditions_of(SR, candle, indicators, prev,
                                              candles_buffer)} } : TRUE

\* SignalEngine.evaluate.  The result carries the new engine fields, the
\* returned Signal (or None) and the two condition lists of the call.
evaluate(E, SR, candle, indicators, candles_buffer, id, now) ==
    LET symbol == candle.symbol
        counted == [E.stats EXCEPT !.total_evaluated = @ + 1]
        stored == DictPut(E.prev_indicators, symbol, indicators)
        skip(stats) ==
            [ engine |-> [E EXCEPT !.prev_indicators = stored,
                                   !.stats = stats],
              signal |-> NoSignal, buy |-> <<>>, sell |-> <<>> ]
        has_prev == symbol \in DOMAIN E.prev_indicators
        prev == E.prev_indicators[symbol]
    IN  IF \/ indicators.ema_9 = NoValue
           \/ indicators.ema_21 = NoValue
           \/ indicators.rsi_14 = NoValue
        THEN skip(counted)
        ELSE IF ~has_prev \/ prev.ema_9 = NoValue
        THEN skip(counted)
        ELSE IF in_cooldown(E, candle)
        THEN skip(counted)
        ELSE IF is_consolidating(candles_buffer)
        THEN skip([counted EXCEPT !.total_filtered_consolidation = @ + 1])
        ELSE CHOOSE result \in
                 { decide(E, SR, candle, indicators, candles_buffer, id, now,
                          conds) :
                     conds \in {conditions_of(SR, candle, indicators, prev,
                                              candles_buffer)} } : TRUE

InitSignal ==
    /\ sr_states = <<>>
    /\ prev_indicators = <<>>
    /\ last_signal_ts = <<>>
    /\ recent_signals = <<>>
    /\ engine_stats = [ total_evaluated |-> 0, total_signals |-> 0,
                        total_filtered_consolidation |-> 0,
                        total_filtered_rr |-> 0,
                        signals_by_type |-> [BUY |-> 0, SELL |-> 0] ]
    /\ emissions = <<>>
    /\ replay = EngineRun

(***************************************************************************)
(* StatsEngine (services/stats_engine.py)                                  *)
(*                                                                         *)
(* The float metrics are exact quotients <<numerator, denominator>> in     *)
(* lowest terms with a positive denominator.                               *)
(***************************************************************************)
Abs(a) == IF a < 0 THEN -a ELSE a

RECURSIVE GCD(_, _)
GCD(a, b) == IF b = 0 THEN a ELSE GCD(b, a % b)

\* The quotient n / d (d > 0) in lowest terms.
Quot(n, d) ==
    LET g == GCD(Abs(n), d)
    IN  <<n \div g, d \div g>>

QAdd(a, b) == Quot(a[1] * b[2] + b[1] * a[2], a[2] * b[2])

QSub(a, b) == Quot(a[1] * b[2] - b[1] * a[2], a[2] * b[2])

QMul(a, b) == Quot(a[1] * b[1], a[2] * b[2])

\* a / b for b > 0
QDiv(a, b) == Quot(a[1] * b[2], a[2] * b[1])

QLess(a, b) == a[1] * b[2] < b[1] * a[2]

QAbs(a) == <<Abs(a[1]), a[2]>>

Zero == <<0, 1>>

GLOBAL_KEY == "__global__"

\* symbol = None; `if symbol` and `symbol or "__global__"` treat the empty
\* string alike.
NoSymbol == ""

\* PerformanceMetrics(): every field at its default.
EMPTY_METRICS ==
    [ total_trades |-> 0, wins |-> 0, losses |-> 0, expired |-> 0,
      win_rate |-> Zero, loss_rate |-> Zero, profit_factor |-> Zero,
      expectancy |-> Zero, avg_rr_real |-> Zero, avg_duration |-> Zero,
      max_drawdown |-> Zero, equity_curve |-> <<>>, gross_profit |-> Zero,
      gross_loss |-> Zero, avg_win |-> Zero, avg_loss |-> Zero,
      best_trade |-> Zero, worst_trade |-> Zero, total_pnl |-> Zero ]

\* sorted(list, key = close_timestamp, reverse): a stable insertion sort;
\* equal keys keep their order in both directions.
RECURSIVE sorted_by_close(_, _)
sorted_by_close(list, reverse) ==
    IF list = <<>> THEN <<>>
    ELSE LET n == Len(list)
             x == list[n]
             before == sorted_by_close(SubSeq(list, 1, n - 1), reverse)
             keep(t) == IF reverse
                        THEN t.close_timestamp >= x.close_timestamp
                        ELSE t.close_timestamp <= x.close_timestamp
             k == Cardinality({i \in DOMAIN before : keep(before[i])})
         IN  SubSeq(before, 1, k) \o <<x>> \o SubSeq(before, k + 1, n - 1)

\* The trades of the deques of the given keys, one deque after the other.
RECURSIVE extend_all(_, _, _)
extend_all(T, closed, keys) ==
    IF keys = <<>> THEN <<>>
    ELSE [i \in DOMAIN closed[keys[1]] |-> T[closed[keys[1]][i]]]
         \o extend_all(T, closed, Tail(keys))

\* TradeStateManager.get_closed_trades: one symbol's history, or (symbol
\* None or empty) every history, combined and sorted by close_timestamp
\* descending.
get_closed_trades(T, closed, keys, symbol) ==
    IF symbol # NoSymbol
    THEN IF symbol \in DOMAIN closed
         THEN [i \in DOMAIN closed[symbol] |-> T[closed[symbol][i]]]
         ELSE <<>>
    ELSE sorted_by_close(extend_all(T, closed, keys), TRUE)

\* The loop of compute: the accumulators after trades[i .. ].
RECURSIVE accumulate(_, _, _)
accumulate(list, i, a) ==
    IF i > Len(list) THEN a
    ELSE LET trade == list[i]
             pnl == trade.pnl_percent
             positive == pnl[1] > 0
             negative == pnl[1] < 0
             won == \/ trade.status = "PROFIT"
                    \/ trade.status = "EXPIRED" /\ positive
             lost == \/ trade.status = "LOSS"
                     \/ trade.status = "EXPIRED" /\ negative
             equity == QAdd(a.cumulative_equity, pnl)
             peak == IF QLess(a.peak_equity, equity) THEN equity
                     ELSE a.peak_equity
             dd == QSub(peak, equity)
         IN  accumulate(list, i + 1,
               [ wins |-> a.wins + (IF won THEN 1 ELSE 0),
                 losses |-> a.losses + (IF lost THEN 1 ELSE 0),
                 expired |-> a.expired
                             + (IF trade.status = "EXPIRED" THEN 1 ELSE 0),
                 gross_profit |-> IF positive THEN QAdd(a.gross_profit, pnl)
                                  ELSE a.gross_profit,
                 gross_loss |-> IF negative
                                THEN QAdd(a.gross_loss, QAbs(pnl))
                                ELSE a.gross_loss,
                 best_pnl |-> IF a.first \/ QLess(a.best_pnl, pnl)
                              THEN Quot(pnl[1], pnl[2]) ELSE a.best_pnl,
                 worst_pnl |-> IF a.first \/ QLess(pnl, a.worst_pnl)
                               THEN Quot(pnl[1], pnl[2]) ELSE a.worst_pnl,
                 first |-> FALSE,
                 sum_duration |-> a.sum_duration + trade.duration_seconds,
                 equity_points |-> Append(a.equity_points, equity),
                 cumulative_equity |-> equity,
                 peak_equity |-> peak,
                 max_dd |-> IF QLess(a.max_dd, dd) THEN dd ELSE a.max_dd ])

\* The derived ratios of compute, from the accumulators of the pass.
metrics_of(n, a) ==
    LET win_rate == Quot(a.wins * 100, n)
        avg_win == IF a.wins > 0 THEN QDiv(a.gross_profit, <<a.wins, 1>>)
                   ELSE Zero
        avg_loss == IF a.losses > 0 THEN QDiv(a.gross_loss, <<a.losses, 1>>)
                    ELSE Zero
    IN  [ total_trades |-> n, wins |-> a.wins, losses |-> a.losses,
          expired |-> a.expired,
          win_rate |-> win_rate,
          loss_rate |-> QSub(<<100, 1>>, win_rate),
          profit_factor |-> IF a.gross_loss[1] > 0
                            THEN QDiv(a.gross_profit, a.gross_loss)
                            ELSE Zero,
          expectancy |-> QSub(QMul(Quot(a.wins, n), avg_win),
                              QMul(Quot(a.losses, n), avg_loss)),
          avg_rr_real |-> IF avg_loss[1] > 0 THEN QDiv(avg_win, avg_loss)
                          ELSE Zero,
          avg_duration |-> Quot(a.sum_duration, n),
          max_drawdown |-> a.max_dd,
          equity_curve |-> a.equity_points,
          gross_profit |-> a.gross_profit,
          gross_loss |-> a.gross_loss,
          avg_win |-> avg_win, avg_loss |-> avg_loss,
          best_trade |-> a.best_pnl, worst_trade |-> a.worst_pnl,
          total_pnl |-> QSub(a.gross_profit, a.gross_loss) ]

\* The accumulators with the peak starting below every equity, so that the
\* first trade sets it.
accumulators_unset_peak ==
    [ wins |-> 0, losses |-> 0, expired |-> 0,
      gross_profit |-> Zero, gross_loss |-> Zero,
      best_pnl |-> Zero, worst_pnl |-> Zero,
      first |-> TRUE, sum_duration |-> 0,
      equity_points |-> <<>>, cumulative_equity |-> Zero,
      peak_equity |-> <<-1000000, 1>>, max_dd |-> Zero ]

\* The accumulators of compute before its pass; best_pnl and worst_pnl are
\* -inf and +inf, which `first` stands for.
accumulators ==
    [ wins |-> 0, losses |-> 0, expired |-> 0,
      gross_profit |-> Zero, gross_loss |-> Zero,
      best_pnl |-> Zero, worst_pnl |-> Zero,
      first |-> TRUE, sum_duration |-> 0,
      equity_points |-> <<>>, cumulative_equity |-> Zero,
      peak_equity |-> Zero, max_dd |-> Zero ]

\* StatsEngine.compute: one pass over the trades, then the derived ratios.
compute(list) ==
    IF list = <<>> THEN EMPTY_METRICS
    ELSE \* the accumulators are bound once for the ratios
         CHOOSE metrics \in
             { metrics_of(Len(list), a) :
                 a \in {accumulate(list, 1, accumulators)} } :
             TRUE

\* on_trade_closed with the invalidation left out.
on_trade_closed_keep(cache, trade) == cache

\* StatsEngine.on_trade_closed: drop the cache slot of the trade's symbol
\* and the global slot.
on_trade_closed(cache, trade) ==
    [key \in DOMAIN cache \ {trade.symbol, GLOBAL_KEY} |-> cache[key]]

\* What get_metrics does: answer from the cache, answer with the empty
\* metrics, or compute and store.
lookup(cache, current_count, cache_key) ==
    IF /\ cache_key \in DOMAIN cache
       /\ cache[cache_key][1] = current_count
       /\ current_count > 0
    THEN "hit"
    ELSE IF current_count = 0 THEN "empty"
    ELSE "compute"

\* get_metrics that computes without storing the result.
get_metrics_no_store(cache, T, closed, keys, symbol) ==
    LET list == get_closed_trades(T, closed, keys, symbol)
    IN  [ cache |-> cache,
          metrics |-> compute(sorted_by_close(list, FALSE)),
          computed |-> IF list = <<>> THEN 0 ELSE 1 ]

\* StatsEngine.get_metrics(symbol); no symbol is the global slot.  The
\* result carries the cache, the metrics returned and whether compute ran.
get_metrics(cache, T, closed, keys, symbol) ==
    LET cache_key == IF symbol # NoSymbol THEN symbol ELSE GLOBAL_KEY
        list == get_closed_trades(T, closed, keys, symbol)
        how == lookup(cache, Len(list), cache_key)
    IN  IF how = "hit"
        THEN [cache |-> cache, metrics |-> cache[cache_key][2],
              computed |-> 0]
        ELSE IF how = "empty"
        THEN [cache |-> cache, metrics |-> EMPTY_METRICS, computed |-> 0]
        ELSE CHOOSE result \in
                 { [ cache |-> DictPut(cache, cache_key,
                                       <<Len(list), metrics>>),
                     metrics |-> metrics, computed |-> 1 ] :
                     metrics \in {compute(sorted_by_close(list, FALSE))} } :
                 TRUE

InitStats ==
    /\ stats_cache = <<>>
    /\ computes = <<>>
    /\ queries = 0

\* TradeSimulator._notify_stats, called by every closing branch of
\* evaluate_tick; id is the trade evaluate_tick closed, or None.  The
\* history of a key starts again when its slot is invalidated.
NotifyStats(T, id) ==
    IF id = None THEN UNCHANGED statsVars
    ELSE /\ stats_cache' = on_trade_closed(stats_cache, T[id])
         /\ computes' = [key \in DOMAIN computes \ {T[id].symbol, GLOBAL_KEY}
                            |-> computes[key]]
         /\ queries' = queries

(***************************************************************************)
(* IndicatorService (services/indicator_service.py) and its per-symbol     *)
(* state (state/indicator_state.py)                                        *)
(*                                                                         *)
(* ema_fast, ema_slow and prev_close are floats in the source; here they   *)
(* are decimals with four places, held as integers in units of 1 / Scale,  *)
(* every division truncating.  avg_gain, avg_loss and rsi are exact        *)
(* quotients, in price units and in percent.                               *)
(***************************************************************************)
EMA_FAST_PERIOD == 9

EMA_SLOW_PERIOD == 21

RSI_PERIOD == 14

MIN_WARMUP == Max(EMA_SLOW_PERIOD, RSI_PERIOD) + 1

Scale == 10000

\* SymbolIndicatorState(symbol)
SymbolIndicatorState(symbol) ==
    [ symbol |-> symbol, warmup_count |-> 0,
      ema_fast |-> NoValue, ema_fast_period |-> EMA_FAST_PERIOD,
      ema_slow |-> NoValue, ema_slow_period |-> EMA_SLOW_PERIOD,
      rsi |-> NoValue, rsi_period |-> RSI_PERIOD,
      avg_gain |-> NoValue, avg_loss |-> NoValue, prev_close |-> NoValue,
      warmup_closes |-> <<>> ]

is_warmed_up(state) == state.warmup_count >= MIN_WARMUP

\* round(q, 2), in hundredths
round_hundredths(q) == (200 * q[1] + q[2]) \div (2 * q[2])

\* SymbolIndicatorState.to_dict; round(ema, 5) keeps every digit the model
\* holds, round(rsi, 2) is given in hundredths.
to_dict(state) ==
    [ symbol |-> state.symbol, warmup_count |-> state.warmup_count,
      is_warmed_up |-> is_warmed_up(state),
      ema_9 |-> state.ema_fast, ema_21 |-> state.ema_slow,
      rsi_14 |-> IF state.rsi = NoValue THEN NoValue
                 ELSE <<round_hundredths(state.rsi[1])>> ]

\* IndicatorStateManager.get_or_create, as a value
indicator_state_of(states, symbol) ==
    DictGet(states, symbol, SymbolIndicatorState(symbol))

\* close * alpha + ema * (1 - alpha), with alpha = 2 / (period + 1)
ema_step(ema, close_, period) ==
    (2 * close_ + (period - 1) * ema) \div (period + 1)

\* _update_ema_fast
update_ema_fast(state, close_) ==
    IF state.ema_fast = NoValue THEN state
    ELSE [state EXCEPT !.ema_fast =
              <<ema_step(@[1], close_, EMA_FAST_PERIOD)>>]

\* _update_ema_slow
update_ema_slow(state, close_) ==
    IF state.ema_slow = NoValue THEN state
    ELSE [state EXCEPT !.ema_slow =
              <<ema_step(@[1], close_, EMA_SLOW_PERIOD)>>]

\* avg_gain and avg_loss are exact: [q, decay] stands for the quotient q
\* times ((period - 1) / period) ^ decay, with decay = 0 when q is zero.
\* A close that repeats the previous one multiplies both averages by
\* (period - 1) / period, which only counts up decay.
Smoothed(q) == [q |-> q, decay |-> 0]

\* q * ((period - 1) / period) ^ k
RECURSIVE shrink(_, _, _)
shrink(q, k, period) ==
    IF k = 0 THEN q
    ELSE shrink(QMul(q, <<period - 1, period>>), k - 1, period)

\* The Wilder step that leaves the average as it is when nothing is added.
wilder_keep(avg, x, period) ==
    IF x = Zero THEN avg
    ELSE Smoothed(QDiv(QAdd(QMul(shrink(avg.q, avg.decay, period),
                                 <<period - 1, 1>>), x),
                       <<period, 1>>))

\* (avg * (period - 1) + x) / period
wilder(avg, x, period) ==
    IF x = Zero
    THEN IF avg.q = Zero THEN avg ELSE [avg EXCEPT !.decay = @ + 1]
    ELSE Smoothed(QDiv(QAdd(QMul(shrink(avg.q, avg.decay, period),
                                 <<period - 1, 1>>), x),
                       <<period, 1>>))

\* _compute_rsi: 100 - 100 / (1 + avg_gain / avg_loss), as a quotient.  The
\* decay the two averages share cancels in avg_gain / avg_loss.
compute_rsi(avg_gain, avg_loss) ==
    IF avg_gain.q = Zero /\ avg_loss.q = Zero THEN <<50, 1>>
    ELSE IF avg_loss.q = Zero THEN <<100, 1>>
    ELSE IF avg_gain.q = Zero THEN Zero
    ELSE LET shared == Min(avg_gain.decay, avg_loss.decay)
             rs == QDiv(shrink(avg_gain.q, avg_gain.decay - shared,
                               RSI_PERIOD),
                        shrink(avg_loss.q, avg_loss.decay - shared,
                               RSI_PERIOD))
         IN  QSub(<<100, 1>>, QDiv(<<100, 1>>, QAdd(<<1, 1>>, rs)))

\* _update_rsi: Wilder smoothing of the gain and the loss of this close
update_rsi(state, close_) ==
    IF \/ state.avg_gain = NoValue
       \/ state.avg_loss = NoValue
       \/ state.prev_close = NoValue
    THEN state
    ELSE LET period == state.rsi_period
             delta == close_ - state.prev_close[1]
             gain == IF delta > 0 THEN Quot(delta, Scale) ELSE Zero
             loss == IF delta < 0 THEN Quot(-delta, Scale) ELSE Zero
         IN  CHOOSE next \in
                 { [state EXCEPT !.avg_gain = <<pair[1]>>,
                                 !.avg_loss = <<pair[2]>>,
                                 !.rsi = <<compute_rsi(pair[1], pair[2])>>] :
                     pair \in {<<wilder(state.avg_gain[1], gain, period),
                                 wilder(state.avg_loss[1], loss, period)>>} } :
                 TRUE

\* The sums of _seed_rsi over the deltas of relevant[i - 1 .. i], i from
\* index on: <<total_gain, total_loss>>.
RECURSIVE rsi_totals(_, _)
rsi_totals(relevant, index) ==
    IF index > Len(relevant) THEN <<0, 0>>
    ELSE LET delta == relevant[index] - relevant[index - 1]
             rest == rsi_totals(relevant, index + 1)
         IN  IF delta > 0 THEN <<rest[1] + delta, rest[2]>>
             ELSE <<rest[1], rest[2] + Abs(delta)>>

\* _seed_rsi dividing the sums by the number of closes, period + 1.
seed_rsi_by_closes(state, closes) ==
    LET period == state.rsi_period
        totals == rsi_totals(LastN(closes, period + 1), 2)
        avg_gain == Smoothed(Quot(totals[1], Scale * (period + 1)))
        avg_loss == Smoothed(Quot(totals[2], Scale * (period + 1)))
    IN  [state EXCEPT !.avg_gain = <<avg_gain>>, !.avg_loss = <<avg_loss>>,
                      !.rsi = <<compute_rsi(avg_gain, avg_loss)>>]

\* _seed_rsi: the first averages over the last period deltas
seed_rsi(state, closes) ==
    LET period == state.rsi_period
        totals == rsi_totals(LastN(closes, period + 1), 2)
        avg_gain == Smoothed(Quot(totals[1], Scale * period))
        avg_loss == Smoothed(Quot(totals[2], Scale * period))
    IN  [state EXCEPT !.avg_gain = <<avg_gain>>, !.avg_loss = <<avg_loss>>,
                      !.rsi = <<compute_rsi(avg_gain, avg_loss)>>]

\* _try_seed_indicators, EMA 9 block
try_seed_ema_fast(state, close_) ==
    IF state.ema_fast = NoValue /\ state.warmup_count = state.ema_fast_period
    THEN [state EXCEPT !.ema_fast =
              <<SeqSum(LastN(state.warmup_closes, state.ema_fast_period))
                    \div state.ema_fast_period>>]
    ELSE IF /\ state.ema_fast # NoValue
            /\ state.warmup_count > state.ema_fast_period
    THEN update_ema_fast(state, close_)
    ELSE state

\* _try_seed_indicators, EMA 21 block
try_seed_ema_slow(state, close_) ==
    IF state.ema_slow = NoValue /\ state.warmup_count = state.ema_slow_period
    THEN [state EXCEPT !.ema_slow =
              <<SeqSum(LastN(state.warmup_closes, state.ema_slow_period))
                    \div state.ema_slow_period>>]
    ELSE IF /\ state.ema_slow # NoValue
            /\ state.warmup_count > state.ema_slow_period
    THEN update_ema_slow(state, close_)
    ELSE state

\* The RSI seed one candle early, at rsi_period closes.
try_seed_rsi_early(state, close_) ==
    IF /\ state.avg_gain = NoValue
       /\ state.warmup_count = state.rsi_period
       /\ Len(state.warmup_closes) >= state.rsi_period
    THEN seed_rsi(state, state.warmup_closes)
    ELSE IF state.avg_gain # NoValue /\ state.warmup_count > state.rsi_period
    THEN update_rsi(state, close_)
    ELSE state

\* _try_seed_indicators, RSI block: the seed needs rsi_period deltas, that
\* is rsi_period + 1 closes.
try_seed_rsi(state, close_) ==
    IF /\ state.avg_gain = NoValue
       /\ state.warmup_count = state.rsi_period + 1
       /\ Len(state.warmup_closes) >= state.rsi_period + 1
    THEN seed_rsi(state, state.warmup_closes)
    ELSE IF /\ state.avg_gain # NoValue
            /\ state.warmup_count > state.rsi_period + 1
    THEN update_rsi(state, close_)
    ELSE state

\* _try_seed_indicators
try_seed_indicators(state, close_) ==
    try_seed_rsi(try_seed_ema_slow(try_seed_ema_fast(state, close_), close_),
                 close_)

\* The state after IndicatorService.update(candle), for the symbol's state
\* before it and the close in units of 1 / Scale.
updated_state(before, close_) ==
    LET state == [before EXCEPT !.warmup_count = @ + 1]
        appended == [state EXCEPT !.warmup_closes = Append(@, close_)]
    IN  IF ~is_warmed_up(state)
        THEN [try_seed_indicators(appended, close_)
                  EXCEPT !.prev_close = <<close_>>]
        ELSE IF state.warmup_closes # <<>>
        THEN [try_seed_indicators(appended, close_)
                  EXCEPT !.warmup_closes = <<>>, !.prev_close = <<close_>>]
        ELSE [update_rsi(update_ema_slow(update_ema_fast(state, close_),
                                         close_), close_)
                  EXCEPT !.prev_close = <<close_>>]

\* update that answers with the snapshot on every call, warm-up included.
indicator_update_always(states, candle) ==
    LET after == updated_state(indicator_state_of(states, candle.symbol),
                               candle.close * Scale)
    IN  [ states |-> DictPut(states, candle.symbol, after),
          result |-> <<to_dict(after)>> ]

\* IndicatorService.update(candle): the new states and the returned value,
\* None (<<>>) while warmup_count < MIN_WARMUP, else the snapshot.
indicator_update(states, candle) ==
    LET after == updated_state(indicator_state_of(states, candle.symbol),
                               candle.close * Scale)
    IN  [ states |-> DictPut(states, candle.symbol, after),
          result |-> IF is_warmed_up(after) THEN <<to_dict(after)>>
                     ELSE <<>> ]

\* IndicatorService.get_indicators(symbol)
get_indicators(states, symbol) ==
    IF symbol \in DOMAIN states THEN <<to_dict(states[symbol])>> ELSE <<>>

\* A call of IndicatorService.update with the positional arguments args.
\* update is declared  update(self, candle): any other number of arguments
\* raises TypeError before the body runs and leaves the states alone.
call_update(states, args) ==
    IF Len(args) = 1
    THEN [ raised |-> FALSE, states |-> indicator_update(states, args[1]).states,
           result |-> indicator_update(states, args[1]).result ]
    ELSE [raised |-> TRUE, states |-> states, result |-> <<>>]

CANDLE_TOPIC == "candle"

TICK_PROCESSED_TOPIC == "tick_processed"

TRADE_CLOSED_TOPIC == "trade_closed"

SIGNAL_TOPIC == "signal"

TRADE_OPENED_TOPIC == "trade_opened"

TF_CANDLE_TOPIC == "tf_candle"

TF_INDICATORS_TOPIC == "tf_indicators"

InitIndicator ==
    /\ indicator_states = <<>>
    /\ returned = <<>>
    /\ tf_candles = <<>>
    /\ tf_published = <<>>

(***************************************************************************)
(* DerivClient._listen (infrastructure/deriv_client.py), MarketState and   *)
(* ProcessTickUseCase (application/process_tick_usecase.py)                *)
(***************************************************************************)
TICK_TOPIC == "tick"

\* dict.get(key, default) on a frame field: <<>> is an absent key.
field_or(f, default) == IF f = <<>> THEN default ELSE f[1]

\* The Tick that _listen builds from a tick frame: absent symbol, epoch and
\* quote default to "", 0 and 0.
tick_of(frame) ==
    [ symbol |-> field_or(frame.symbol, ""),
      epoch  |-> field_or(frame.epoch, 0),
      quote  |-> field_or(frame.quote, 0) ]

\* One turn of _listen's loop: the client's counters and the bus queues
\* after the frame.  Frames that are not JSON, error envelopes, pongs and
\* any other frame without a "tick" key change nothing.
listen(C, subs, Q, frame, maxsize) ==
    IF frame.kind # "tick"
    THEN [client |-> C, queues |-> Q]
    ELSE LET tick == tick_of(frame)
         IN  [ client |-> [C EXCEPT !.ticks_received = @ + 1,
                                    !.last_tick_time = tick.epoch],
               queues |-> publish(subs, Q, TICK_TOPIC, tick, maxsize) ]

\* The candle the signal engine evaluates is a timeframe candle, closed by
\* the aggregator when a base candle crosses its boundary; its close is the
\* close of the base candle stored before the one that has just closed.
\* Whether the indicators and the support/resistance levels then produce
\* a signal is not computed here: the engine yields none, a BUY or a SELL,
\* with entry = candle.close, a stop-loss one unit away from the entry and
\* the take-profit at signal_rr_ratio times that distance.  A candle whose
\* close is not positive never yields a signal (the minimum stop-loss
\* distance is a positive fraction of the entry).
SignalChoices == {"none", "BUY", "SELL"}

can_signal(stored) == stored # <<>> /\ stored[Len(stored)].close > 0

signal_for(symbol, choice, entry) ==
    IF choice = "BUY"
    THEN [id |-> "5b1e", symbol |-> symbol, signal_type |-> "BUY",
          entry |-> entry, stop_loss |-> entry - 1,
          take_profit |-> entry + signal_rr_ratio]
    ELSE [id |-> "c07a", symbol |-> symbol, signal_type |-> "SELL",
          entry |-> entry, stop_loss |-> entry + 1,
          take_profit |-> entry - signal_rr_ratio]

\* The simulator calls of _run in the opposite order: the signal's trade is
\* opened before the tick is evaluated.
run_simulator_evaluate_last(S, tick, signal) ==
    LET S1 == IF signal # <<>> THEN open_trade(S, signal[1]) ELSE S
        S2 == evaluate_tick(S1, tick.symbol, tick.quote, tick.epoch)
    IN  [sim |-> S2, closed_trade |-> S2.ret, new_trade |-> S1.ret]

\* The simulator calls of _run for one tick: evaluate_tick first (step 1b),
\* and open_trade only after the candle closed by this tick produced a
\* signal (_process_tf_candle).
run_simulator(S, tick, signal) ==
    LET S1 == evaluate_tick(S, tick.symbol, tick.quote, tick.epoch)
        S2 == IF signal # <<>>
              THEN open_trade([S1 EXCEPT !.ret = None], signal[1])
              ELSE [S1 EXCEPT !.ret = None]
    IN  [sim |-> S2, closed_trade |-> S1.ret, new_trade |-> S2.ret]

(***************************************************************************)
(* DerivClient life cycle (infrastructure/deriv_client.py): start, stop,   *)
(* _connect_loop and _heartbeat.  The tasks run on one event loop, so a    *)
(* step is what a coroutine does from one await to the next.               *)
(*   connect_task   : "none", "top" (created, or about to test _running),  *)
(*                    "connect" (in websockets.connect), "subscribe" (in   *)
(*                    _subscribe_symbols), "listen" (in `async for`),      *)
(*                    "sleep" (in asyncio.sleep(total_delay)), "done",     *)
(*                    "cancelled"                                          *)
(*   heartbeat_task : "none", "start" (created), "sleep", "done",          *)
(*                    "cancelled"                                          *)
(*   socket         : the connection object: "none", "open", "closing"     *)
(*                    (close handshake under way, close_code still None),  *)
(*                    "closed"                                             *)
(*   stopping       : a stop() call: "idle" (none), "closing" (in          *)
(*                    ws.close()), "joining" (awaiting the connect task),  *)
(*                    "returned"                                           *)
(***************************************************************************)
ws_reconnect_base_delay == 1

ws_reconnect_max_delay == 60

\* DerivClient.__init__
DerivClient ==
    [ running |-> FALSE, ws |-> FALSE, connect_task |-> "none",
      heartbeat_task |-> "none", reconnect_attempt |-> 0,
      total_delay |-> Zero, socket |-> "none", stopping |-> "idle" ]

\* task is None or task.done()
Ended(task) == task \in {"none", "done", "cancelled"}

\* DerivClient.start: idempotent; creates the connect task.
start(C) ==
    IF C.running THEN C
    ELSE [C EXCEPT !.running = TRUE, !.connect_task = "top"]

\* `if self._heartbeat_task and not self._heartbeat_task.done(): cancel()`;
\* _heartbeat catches the CancelledError and returns.
cancel_heartbeat(C) ==
    IF Ended(C.heartbeat_task) THEN C
    ELSE [C EXCEPT !.heartbeat_task = "cancelled"]

\* Leaving the try of _connect_loop: a connection entered by `async with`
\* is closed on the way out, and the finally clears _ws and cancels the
\* heartbeat.
finally_(C) ==
    cancel_heartbeat([C EXCEPT !.ws = FALSE,
                               !.socket = IF @ \in {"open", "closing"}
                                          THEN "closed" ELSE @])

\* The delay with the exponent one too high.
backoff_delay_next(attempt) ==
    Min(ws_reconnect_base_delay * 2 ^ (attempt + 1), ws_reconnect_max_delay)

\* delay = min(base * 2 ** attempt, max_delay)
backoff_delay(attempt) ==
    Min(ws_reconnect_base_delay * 2 ^ attempt, ws_reconnect_max_delay)

\* random.uniform(0, delay * 0.3), for the draws 0, 1/2 and 1.
Draws == 0 .. 2

jitter(delay, u) == Quot(3 * delay * u, 20)

\* _connect_loop after its try statement: leave when stopped, otherwise
\* compute the wait, count the attempt and sleep.
after_try(C, u) ==
    LET F == finally_(C)
        delay == backoff_delay(F.reconnect_attempt)
    IN  IF ~F.running THEN [F EXCEPT !.connect_task = "done"]
        ELSE [F EXCEPT !.total_delay = QAdd(<<delay, 1>>, jitter(delay, u)),
                       !.reconnect_attempt = @ + 1,
                       !.connect_task = "sleep"]

\* `while self._running:` then websockets.connect(...).
loop_top(C) ==
    IF C.running THEN [C EXCEPT !.connect_task = "connect"]
    ELSE [C EXCEPT !.connect_task = "done"]

\* websockets.connect returns a connection or raises (OSError, ...).
connected(C, ok, u) ==
    IF ok
    THEN [C EXCEPT !.ws = TRUE, !.socket = "open",
                   !.reconnect_attempt = 0, !.connect_task = "subscribe"]
    ELSE after_try(C, u)

\* _subscribe_symbols has sent its requests (or the send raised): the
\* heartbeat task is created and _listen starts.
subscribed(C, ok, u) ==
    IF ok
    THEN [C EXCEPT !.heartbeat_task = "start", !.connect_task = "listen"]
    ELSE after_try(C, u)

\* A task.cancel() of the connect task, delivered at its await.  The sleep
\* and the loop test are outside the try statement.
cancelled(C) ==
    IF C.connect_task \in {"top", "sleep"}
    THEN [C EXCEPT !.connect_task = "cancelled"]
    ELSE [finally_(C) EXCEPT !.connect_task = "cancelled"]

\* stop(): await connect_task after cancelling it, or return.
stop_join(C) ==
    IF Ended(C.connect_task) THEN [C EXCEPT !.stopping = "returned"]
    ELSE [cancelled(C) EXCEPT !.stopping = "joining"]

\* stop() that leaves _running set.
stop_begin_keep_running(C) ==
    LET C1 == cancel_heartbeat(C)
    IN  IF C1.ws
        THEN [C1 EXCEPT !.socket = IF @ = "open" THEN "closing" ELSE @,
                        !.stopping = "closing"]
        ELSE stop_join(C1)

\* stop() up to its first await: clear _running, cancel the heartbeat,
\* start closing the socket if there is one.
stop_begin(C) ==
    LET C1 == cancel_heartbeat([C EXCEPT !.running = FALSE])
    IN  IF C1.ws
        THEN [C1 EXCEPT !.socket = IF @ = "open" THEN "closing" ELSE @,
                        !.stopping = "closing"]
        ELSE stop_join(C1)

\* One turn of _heartbeat: the first test of _running, or a wake-up from
\* the sleep: leave if the connection has a close_code, else send the ping
\* (sent tells whether the send succeeded) and test _running again.
heartbeat(C, sent) ==
    IF C.heartbeat_task = "start"
    THEN [C EXCEPT !.heartbeat_task = IF C.running THEN "sleep" ELSE "done"]
    ELSE IF C.socket = "closed" \/ ~sent \/ ~C.running
    THEN [C EXCEPT !.heartbeat_task = "done"]
    ELSE C

InitLink ==
    /\ conn = DerivClient
    /\ conn_log = [waits |-> 0, unanswered |-> 0, after_stop |-> FALSE,
                   stopped_in |-> "none", ping_failed |-> FALSE]

(***************************************************************************)
(* ProcessTickUseCase: the active timeframe and _process_tf_candle         *)
(* (application/process_tick_usecase.py)                                   *)
(***************************************************************************)
default_timeframe == "5m"

\* The indicator service handed to the constructor: "declared" is the
\* IndicatorService of services/indicator_service.py, as main.py composes
\* it; "none" is the default of the parameter; "given" is a service whose
\* update takes (candle, timeframe), with the snapshot it returns an input.
IndicatorServices == {"declared", "none", "given"}

\* ProcessTickUseCase.__init__ as main.py calls it.
ProcessTickUseCase ==
    [ active_timeframe |-> default_timeframe,
      indicator_service |-> "declared", errors |-> 0, loop |-> "get",
      stopped |-> FALSE, available_timeframes |-> available_timeframes ]

InitOrchestrator ==
    /\ uc = ProcessTickUseCase
    /\ uc_log = <<>>
    /\ lifespan = [pc |-> "serving", workers |-> "running"]

\* The active_timeframe setter: a key of TIMEFRAME_SECONDS is stored, any
\* other value is ignored.
set_active_timeframe(U, tf) ==
    IF tf \in DOMAIN TIMEFRAME_SECONDS THEN [U EXCEPT !.active_timeframe = tf]
    ELSE U

\* ProcessTickUseCase.stop: clears _running and returns.
stop(U) == [U EXCEPT !.stopped = TRUE]

\* `while self._running:` after a turn or a timeout of queue.get(); the
\* flag is set by start() and cleared by stop().
loop_test(U) == IF U.stopped THEN [U EXCEPT !.loop = "ended"] ELSE U

\* TimeframeAggregator.__init__: the timeframes it is built with are those
\* of the configured list that are keys of TIMEFRAME_SECONDS.
aggregator_timeframes(timeframes) ==
    SelectSeq(timeframes, LAMBDA tf : tf \in DOMAIN TIMEFRAME_SECONDS)

\* POST /api/timeframe without the test of settings.available_timeframes.
set_timeframe_unchecked(U, tf) == set_active_timeframe(U, tf)

\* POST /api/timeframe: a value that is not in
\* settings.available_timeframes is answered with an error, any other is
\* handed to the setter.
set_timeframe(U, tf) ==
    IF tf \notin {U.available_timeframes[k] :
                      k \in 1 .. Len(U.available_timeframes)}
    THEN U
    ELSE set_active_timeframe(U, tf)

\* self._indicator_service.update(candle, timeframe), by the service.
indicator_call(U, states, candle, timeframe, indicators) ==
    IF U.indicator_service = "declared"
    THEN call_update(states, <<candle, timeframe>>)
    ELSE [ raised |-> FALSE, states |-> states,
           result |-> IF U.indicator_service = "none" THEN <<>>
                      ELSE indicators ]

InitPipeline ==
    /\ client = [ticks_received |-> 0, last_tick_time |-> 0]
    /\ uc_queue = None
    /\ processed_count = 0
    /\ last_tick = <<>>
    /\ total_ticks = <<>>
    /\ born = <<>>
    /\ opened = <<>>

InitTrade ==
    /\ trades = <<>>
    /\ active_trades = <<>>
    /\ closed_trades = <<>>
    /\ closed_keys = <<>>
    /\ sim_stats = [trades_opened |-> 0, signals_ignored |-> 0,
                    profit_count |-> 0, loss_count |-> 0, expired_count |-> 0]

\* The state after construction of every component (main.py).
InitSimulator ==
    InitTrade /\ InitCandle /\ InitBus /\ InitPipeline /\ InitSignal
    /\ InitStats /\ InitIndicator /\ InitLink /\ InitOrchestrator
    /\ steps = 0

\* Steps 2 of ProcessTickUseCase._run: feed the builder and store the candle
\* it closes.  The two histories record which ticks went into which candle.
FeedCandleBuilder(tick) ==
    LET r == process_tick(building, tick, candle_interval_seconds)
    IN  /\ building' = r.building
        /\ IF r.closed = NoCandle
           THEN /\ candles' = candles
                /\ emitted_ticks' = emitted_ticks
                /\ folded_ticks' =
                       DictPut(folded_ticks, tick.symbol,
                               Append(DictGet(folded_ticks, tick.symbol, <<>>),
                                      tick))
           ELSE /\ candles' = add_candle(candles, r.closed[1])
                /\ emitted_ticks' =
                       DictPut(emitted_ticks, tick.symbol,
                               DequeAppend(
                                   DictGet(emitted_ticks, tick.symbol, <<>>),
                                   folded_ticks[tick.symbol],
                                   max_candles_buffer))
                /\ folded_ticks' = DictPut(folded_ticks, tick.symbol, <<tick>>)

\* Step 3 of ProcessTickUseCase._run: a base candle closed by the tick is
\* handed to the aggregator.  The histories record the base candles folded
\* into each building TF candle and the TF candles the aggregator returned.
FeedAggregator(tick) ==
    LET base == process_tick(building, tick, candle_interval_seconds).closed
    IN  IF base = NoCandle
        THEN UNCHANGED <<tf_building, tf_folded, tf_emitted>>
        ELSE LET r == process_candle(tf_building, base[1],
                                     available_timeframes)
                 closed_tfs == {r.closed[k][1] : k \in 1 .. Len(r.closed)}
                 keys == {<<base[1].symbol, available_timeframes[k]>> :
                             k \in 1 .. Len(available_timeframes)}
             IN  /\ tf_building' = r.building
                 /\ tf_folded' =
                        [key \in DOMAIN tf_folded \cup keys |->
                            IF key \notin keys THEN tf_folded[key]
                            ELSE IF key \notin DOMAIN tf_folded
                                    \/ key[2] \in closed_tfs
                            THEN <<base[1]>>
                            ELSE Append(tf_folded[key], base[1])]
                 /\ tf_emitted' =
                        [key \in DOMAIN tf_emitted \cup keys |->
                            IF key \in keys /\ key[2] \in closed_tfs
                            THEN Append(DictGet(tf_emitted, key, <<>>),
                                        freeze(tf_building[key]))
                            ELSE DictGet(tf_emitted, key, <<>>)]

\* Tick epochs for the builder: inside bucket 0 (4), exactly on the boundary
\* of bucket 300 (buckets skipped, and the 5m boundary crossed) and inside a
\* bucket after it (906); in any order, so epochs also repeat and go
\* backwards.
CandleEpochs == {4, 300, 906}

CandlePrices == {1, 2}

CandleTicks ==
    { [symbol |-> s, epoch |-> e, quote |-> p] :
        s \in Symbols, e \in CandleEpochs, p \in CandlePrices }

CandleTick(tick) ==
    /\ steps < MaxCandleTicks
    /\ steps' = steps + 1
    /\ FeedCandleBuilder(tick)
    /\ FeedAggregator(tick)
    /\ UNCHANGED <<tradeVars, busVars, pipeVars, engineVars>>

CandleTickStep == \E tick \in CandleTicks : CandleTick(tick)

NextCandle == CandleTickStep

SpecCandle == InitSimulator /\ [][NextCandle]_vars

(***************************************************************************)
(* Claims about the candle builder (under SpecCandle)                      *)
(***************************************************************************)
\* C9: every emitted base candle has an open_time that is a multiple of the
\* interval and is the floor-aligned bucket of the tick that opened it (a
\* tick exactly on a boundary gets that boundary), high >= max(open, close),
\* low <= min(open, close) and tick_count >= 1.
C9_CandleShape ==
    \A symbol \in DOMAIN candles :
        \A i \in 1 .. Len(candles[symbol]) :
            LET c     == candles[symbol][i]
                first == emitted_ticks[symbol][i][1]
            IN  /\ c.timestamp % c.interval = 0
                /\ c.interval = candle_interval_seconds
                /\ c.timestamp <= first.epoch
                /\ first.epoch < c.timestamp + c.interval
                /\ first.epoch % c.interval = 0 => c.timestamp = first.epoch
                /\ c.high >= Max(c.open, c.close)
                /\ c.low <= Min(c.open, c.close)
                /\ c.tick_count >= 1

\* Emitted candles opened by a tick on a bucket boundary and by a tick inside
\* a bucket, one of them with its high above and one with its low below both
\* open and close.
C9_Witness ==
    \E symbol \in DOMAIN candles :
        /\ \E i \in 1 .. Len(candles[symbol]) :
              emitted_ticks[symbol][i][1].epoch % candle_interval_seconds = 0
        /\ \E i \in 1 .. Len(candles[symbol]) :
              /\ emitted_ticks[symbol][i][1].epoch
                    % candle_interval_seconds # 0
              /\ candles[symbol][i].high
                    > Max(candles[symbol][i].open, candles[symbol][i].close)

\* The tick that closed the i-th emitted candle of a symbol: the one that
\* seeded the candle built next.
ClosingTick(symbol, i) ==
    IF i < Len(candles[symbol])
    THEN emitted_ticks[symbol][i + 1][1]
    ELSE folded_ticks[symbol][1]

\* C10: a candle is emitted only when a tick at or after its close time
\* closes it, and the open_times of the candles emitted for a symbol are
\* strictly increasing, for any order of tick epochs.
C10_EmitOnceIncreasing ==
    \A symbol \in DOMAIN candles :
        /\ \A i \in 1 .. Len(candles[symbol]) :
              ClosingTick(symbol, i).epoch
                >= candles[symbol][i].timestamp + candles[symbol][i].interval
        /\ \A i, j \in 1 .. Len(candles[symbol]) :
              i < j => candles[symbol][i].timestamp
                         < candles[symbol][j].timestamp

\* Two candles emitted for a symbol, across an epoch gap, the first of which
\* had folded a tick older than its own open_time.
C10_Witness ==
    \E symbol \in DOMAIN candles :
        /\ Len(candles[symbol]) >= 2
        /\ candles[symbol][2].timestamp
              > candles[symbol][1].timestamp + candle_interval_seconds
        /\ \E k \in 1 .. Len(emitted_ticks[symbol][2]) :
              emitted_ticks[symbol][2][k].epoch < candles[symbol][2].timestamp

\* C40: every tick folded into an emitted base candle has an epoch inside
\* the candle's bucket, open_time <= epoch < open_time + interval, for any
\* order of tick epochs within a symbol.
C40_FoldedTicksInBucket ==
    \A symbol \in DOMAIN candles :
        \A i \in 1 .. Len(candles[symbol]) :
            \A k \in 1 .. Len(emitted_ticks[symbol][i]) :
                /\ candles[symbol][i].timestamp
                      <= emitted_ticks[symbol][i][k].epoch
                /\ emitted_ticks[symbol][i][k].epoch
                      < candles[symbol][i].timestamp
                          + candles[symbol][i].interval

\* What the test of process_tick does give: no folded tick is at or after
\* the close time, and the tick that opened the candle is inside it.
FoldedTicksBeforeClose ==
    \A symbol \in DOMAIN candles :
        \A i \in 1 .. Len(candles[symbol]) :
            /\ \A k \in 1 .. Len(emitted_ticks[symbol][i]) :
                   emitted_ticks[symbol][i][k].epoch
                       < candles[symbol][i].timestamp
                           + candles[symbol][i].interval
            /\ candles[symbol][i].timestamp
                   <= emitted_ticks[symbol][i][1].epoch

\* The builder fed a sequence of ticks from the given _building: the final
\* _building and, tick by tick, what process_tick returned.
RECURSIVE feed_ticks(_, _, _)
feed_ticks(B, ticks, interval) ==
    IF ticks = <<>>
    THEN [building |-> B, emitted |-> <<>>]
    ELSE LET r    == process_tick(B, Head(ticks), interval)
             rest == feed_ticks(r.building, Tail(ticks), interval)
         IN  [building |-> rest.building,
              emitted |-> <<r.closed>> \o rest.emitted]

MaxQuote(T) ==
    CHOOSE q \in {T[k].quote : k \in 1 .. Len(T)} :
        \A k \in 1 .. Len(T) : q >= T[k].quote

MinQuote(T) ==
    CHOOSE q \in {T[k].quote : k \in 1 .. Len(T)} :
        \A k \in 1 .. Len(T) : q <= T[k].quote

\* The OHLC and tick count of a sequence of folded ticks.
FoldedShape(T) ==
    [ open |-> T[1].quote, high |-> MaxQuote(T), low |-> MinQuote(T),
      close |-> T[Len(T)].quote, tick_count |-> Len(T) ]

ShapeOf(c) ==
    [ open |-> c.open, high |-> c.high, low |-> c.low, close |-> c.close,
      tick_count |-> c.tick_count ]

\* The ticks (100.0, t=0.2), (101.0, t=1.5), (99.5, t=4.9), (102.0, t=5.1)
\* with interval 5, in tenths of a second and tenths of a price unit.
ExampleInterval == candle_interval_seconds * 10

ExampleTicks ==
    << [symbol |-> "R_100", epoch |-> 2, quote |-> 1000],
       [symbol |-> "R_100", epoch |-> 15, quote |-> 1010],
       [symbol |-> "R_100", epoch |-> 49, quote |-> 995],
       [symbol |-> "R_100", epoch |-> 51, quote |-> 1020] >>

ExampleRun == feed_ticks(<<>>, ExampleTicks, ExampleInterval)

\* C11: an emitted candle has open = first, high = max, low = min and
\* close = last of the prices folded since it was opened and tick_count =
\* their number; the closing tick is not folded into it and seeds the new
\* building candle.  The four example ticks emit one candle, on the fourth
\* tick, with open_time 0, O=100.0, H=101.0, L=99.5, C=99.5, tick_count 3,
\* and leave a building candle at open_time 5 with O=H=L=C=102.0.
C11_CandleFromFoldedTicks ==
    /\ \A symbol \in DOMAIN candles :
          \A i \in 1 .. Len(candles[symbol]) :
              ShapeOf(candles[symbol][i])
                  = FoldedShape(emitted_ticks[symbol][i])
    /\ \A symbol \in DOMAIN building :
          /\ ShapeOf(building[symbol]) = FoldedShape(folded_ticks[symbol])
          /\ building[symbol].open_time
                = align_time(folded_ticks[symbol][1].epoch,
                             candle_interval_seconds)
    /\ ExampleRun.emitted =
          << NoCandle, NoCandle, NoCandle,
             <<[ symbol |-> "R_100", timestamp |-> 0, open |-> 1000,
                 high |-> 1010, low |-> 995, close |-> 995,
                 tick_count |-> 3, interval |-> ExampleInterval ]>> >>
    /\ ExampleRun.building["R_100"] =
          [ symbol |-> "R_100", open_time |-> 50, close_time |-> 100,
            open |-> 1020, high |-> 1020, low |-> 1020, close |-> 1020,
            tick_count |-> 1 ]

\* A candle of three ticks (up, then down to the open) has just been emitted
\* on the fourth tick, which alone is in the new building candle.
C11_Witness ==
    \E symbol \in DOMAIN candles :
        LET c == candles[symbol][Len(candles[symbol])]
        IN  /\ c.tick_count = 3
            /\ c.high > c.open
            /\ c.close = c.low
            /\ building[symbol].tick_count = 1
            /\ building[symbol].open > c.high - 1
            /\ building[symbol].open # c.close

\* C12: for every base candle the builder emits and every configured
\* timeframe, the TF candle the aggregator folds it into has an open_time
\* that is a multiple of the TF interval and
\* tf.open_time <= base.open_time < tf.open_time + TF interval.
C12_BaseInsideTFCandle ==
    \A key \in DOMAIN tf_building :
        LET b        == tf_building[key]
            interval == TIMEFRAME_SECONDS[key[2]]
        IN  /\ b.open_time % interval = 0
            /\ b.close_time = b.open_time + interval
            /\ b.tick_count = Len(tf_folded[key])
            /\ \A k \in 1 .. Len(tf_folded[key]) :
                  /\ b.open_time <= tf_folded[key][k].timestamp
                  /\ tf_folded[key][k].timestamp < b.open_time + interval

\* The 5m candle of bucket 0 was closed by a base candle at 300, which
\* seeded the next 5m candle and was folded into the 15m candle of bucket
\* 0 next to an earlier base candle.
C12_Witness ==
    \E symbol \in Symbols :
        /\ <<symbol, "5m">> \in DOMAIN tf_emitted
        /\ Len(tf_emitted[<<symbol, "5m">>]) = 1
        /\ tf_building[<<symbol, "5m">>].open_time = 300
        /\ Len(tf_folded[<<symbol, "15m">>]) = 2
        /\ tf_folded[<<symbol, "15m">>][2].timestamp = 300

(***************************************************************************)
(* Specification of the simulator driven directly: any sequence of         *)
(* open_trade and evaluate_tick calls.                                     *)
(***************************************************************************)
SetSim(S) ==
    /\ trades' = S.trades
    /\ active_trades' = S.active
    /\ closed_trades' = S.closed
    /\ closed_keys' = S.closed_keys
    /\ sim_stats' = S.stats

OpenTrade(signal) ==
    /\ sim_stats.trades_opened + sim_stats.signals_ignored < MaxSignals
    /\ SetSim(open_trade(SimState, signal))
    /\ UNCHANGED <<steps, candleVars, busVars, pipeVars, engineVars>>

EvaluateTick(symbol, price, timestamp) ==
    /\ steps < MaxTicks
    /\ steps' = steps + 1
    /\ \E S \in {evaluate_tick(SimState, symbol, price, timestamp)} :
           SetSim(S) /\ NotifyStats(S.trades, S.ret)
    /\ UNCHANGED <<candleVars, busVars, pipeVars, signalVars, indicatorVars,
                   linkVars, orchVars>>

OpenTradeStep == \E signal \in Signals : OpenTrade(signal)

EvaluateTickStep ==
    \E symbol \in Symbols, price \in Prices, timestamp \in Epochs :
        EvaluateTick(symbol, price, timestamp)

NextTrade == OpenTradeStep \/ EvaluateTickStep

SpecTrade == InitSimulator /\ [][NextTrade]_vars

(***************************************************************************)
(* Claims about the simulator and the trade state (under SpecTrade)        *)
(***************************************************************************)
TradeIds == DOMAIN trades

ActiveStatus == {"PENDING", "OPEN"}

LiveTrades(symbol) ==
    { id \in TradeIds : trades[id].symbol = symbol
                         /\ trades[id].status \in ActiveStatus }

\* C1: in every reachable state each symbol has at most one SimulatedTrade
\* whose status is PENDING or OPEN.
C1_OneActivePerSymbol ==
    \A symbol \in Symbols : Cardinality(LiveTrades(symbol)) <= 1

\* A symbol went through a whole trade, took a second one and rejected a
\* further signal while it was active.
C1_Witness ==
    \E symbol \in Symbols :
        /\ Cardinality(LiveTrades(symbol)) = 1
        /\ symbol \in DOMAIN closed_trades
        /\ sim_stats.signals_ignored > 0

StatusMoves ==
    { <<"PENDING", "OPEN">>, <<"OPEN", "PROFIT">>, <<"OPEN", "LOSS">>,
      <<"OPEN", "EXPIRED">> }

\* C2: a trade's status changes only along PENDING->OPEN and
\* OPEN->{PROFIT, LOSS, EXPIRED}, and a trade with a terminal status never
\* changes again (status, entry_price, close_price, close timestamp,
\* pnl_percent, duration), under any later tick or signal.
C2_Lifecycle ==
    [][ \A id \in TradeIds :
            /\ id \in DOMAIN trades'
            /\ trades'[id].status # trades[id].status
                   => <<trades[id].status, trades'[id].status>> \in StatusMoves
            /\ is_closed(trades[id]) => trades'[id] = trades[id] ]_vars

\* A closed trade whose symbol later ran a second trade to its close.
C2_Witness ==
    \E i, j \in TradeIds :
        /\ i < j
        /\ trades[i].symbol = trades[j].symbol
        /\ is_closed(trades[i])
        /\ is_closed(trades[j])

\* The status the claim gives an OPEN trade after a tick (price, timestamp).
C3_Expected(t, price, timestamp) ==
    IF timestamp - t.open_timestamp >= t.max_duration_seconds THEN "EXPIRED"
    ELSE IF (t.signal_type = "BUY" /\ price <= t.stop_loss)
            \/ (t.signal_type = "SELL" /\ price >= t.stop_loss) THEN "LOSS"
    ELSE IF (t.signal_type = "BUY" /\ price >= t.take_profit)
            \/ (t.signal_type = "SELL" /\ price <= t.take_profit) THEN "PROFIT"
    ELSE "OPEN"

\* C3: for an OPEN trade evaluate_tick checks expiry, then stop-loss, then
\* take-profit, and closes with the first that matches; otherwise the trade
\* stays OPEN.
C3_CheckOrder ==
    \A symbol \in DOMAIN active_trades :
        LET id == active_trades[symbol]
        IN  is_open(trades[id]) =>
                \A price \in Prices, timestamp \in Epochs :
                    evaluate_tick(SimState, symbol, price, timestamp)
                        .trades[id].status
                      = C3_Expected(trades[id], price, timestamp)

\* One trade expired on a tick whose quote was also at or beyond its
\* stop-loss, and one closed as LOSS on a quote that also reached its
\* take-profit.
C3_Witness ==
    /\ \E id \in TradeIds :
          /\ trades[id].status = "EXPIRED"
          /\ sl_hit(trades[id], trades[id].close_price)
    /\ \E id \in TradeIds :
          /\ trades[id].status = "LOSS"
          /\ tp_hit(trades[id], trades[id].close_price)

\* C5: open_trade for a symbol with an active trade creates no trade,
\* returns none, adds exactly one to signals_ignored and leaves the active
\* trade, trades_opened and the closed history unchanged; register_trade on
\* an occupied slot returns false and does not replace the slot's trade.
C5_RejectWhenActive ==
    \A signal \in Signals :
        has_active_trade(active_trades, signal.symbol) =>
            LET r   == open_trade(SimState, signal)
                new == SimulatedTrade(Len(trades) + 1, signal,
                                      max_duration_seconds)
                reg == register_trade(active_trades, new)
            IN  /\ r.ret = None
                /\ r.trades = trades
                /\ r.active = active_trades
                /\ r.closed = closed_trades
                /\ r.stats = [sim_stats EXCEPT !.signals_ignored = @ + 1]
                /\ ~reg.ok
                /\ reg.active = active_trades

\* A signal was rejected for a symbol that holds an active trade and already
\* has a closed history.
C5_Witness ==
    \E symbol \in DOMAIN active_trades :
        /\ sim_stats.signals_ignored > 0
        /\ symbol \in DOMAIN closed_trades
        /\ Len(closed_trades[symbol]) > 0

\* The trades of a symbol's closed history, oldest first.
ClosedOf(closed, symbol) == DictGet(closed, symbol, <<>>)

\* The ids held in the active slots and in the closed histories.
InSlots(active) == {active[symbol] : symbol \in DOMAIN active}

InHistories(closed) ==
    UNION {{closed[symbol][i] : i \in DOMAIN closed[symbol]} :
              symbol \in DOMAIN closed}

\* The slots and the histories hold trades of the right status, apart.
SlotsAndHistories(all, active, closed) ==
    /\ \A id \in InSlots(active) : all[id].status \in ActiveStatus
    /\ \A id \in InHistories(closed) : all[id].status \in ClosedStatus
    /\ InSlots(active) \cap InHistories(closed) = {}
    /\ \A symbol \in DOMAIN closed : Len(closed[symbol]) <= MAX_HISTORY

Topics == {"tick", "candle"}

QueueIds == DOMAIN queues

\* The topic a queue was handed out for.
TopicOf(q) ==
    CHOOSE topic \in DOMAIN subscribers :
        \E i \in 1 .. Len(subscribers[topic]) : subscribers[topic][i] = q

Subscribe(topic) ==
    /\ Len(queues) < MaxSubscribers
    /\ LET r == subscribe(subscribers, queues, topic)
       IN  /\ subscribers' = r.subscribers
           /\ queues' = r.queues
           /\ subscribed_at' =
                  Append(subscribed_at, Len(DictGet(published, topic, <<>>)))
           /\ delivered' = Append(delivered, <<>>)
           /\ evicted' = Append(evicted, <<>>)
    /\ UNCHANGED <<published, steps, tradeVars, candleVars, pipeVars, engineVars>>

\* publish(topic, data); data is the number of the publication, so that
\* every published payload is told apart.
Publish(topic) ==
    /\ steps < MaxPublish
    /\ steps' = steps + 1
    /\ queues' = publish(subscribers, queues, topic, steps + 1, max_queue_size)
    /\ published' = DictPut(published, topic,
                            Append(DictGet(published, topic, <<>>), steps + 1))
    /\ evicted' =
          [q \in QueueIds |->
              IF TopicOf(q) = topic /\ full(queues[q], max_queue_size)
              THEN Append(evicted[q], Head(queues[q]))
              ELSE evicted[q]]
    /\ UNCHANGED <<subscribers, subscribed_at, delivered, tradeVars, candleVars,
                   pipeVars, engineVars>>

\* A consumer's  await queue.get()  returning: only on a non-empty queue.
Consume(q) ==
    /\ queues[q] # <<>>
    /\ delivered' = [delivered EXCEPT ![q] = Append(@, Head(queues[q]))]
    /\ queues' = [queues EXCEPT ![q] = Tail(@)]
    /\ UNCHANGED <<subscribers, published, subscribed_at, evicted, steps,
                   tradeVars, candleVars, pipeVars, engineVars>>

SubscribeStep == \E topic \in Topics : Subscribe(topic)

PublishStep == \E topic \in Topics : Publish(topic)

ConsumeStep == \E q \in QueueIds : Consume(q)

NextBus == SubscribeStep \/ PublishStep \/ ConsumeStep

SpecBus == InitSimulator /\ [][NextBus]_vars

(***************************************************************************)
(* Claims about the event bus (under SpecBus)                              *)
(***************************************************************************)
Last(q) == q[Len(q)]

\* C7: every subscriber queue holds at most max_queue_size elements; publish
\* never waits for a consumer (it can be taken in every state, whatever the
\* queues hold); a publish to a full queue removes exactly that queue's
\* oldest element and enqueues the new payload, so that after publish(topic,
\* x) x is the newest element of every queue subscribed to topic.
C7_BoundedDropOldest ==
    /\ \A q \in QueueIds : Len(queues[q]) <= max_queue_size
    /\ \A topic \in Topics :
          /\ steps < MaxPublish => ENABLED Publish(topic)
          /\ LET x  == steps + 1
                 Q2 == publish(subscribers, queues, topic, x, max_queue_size)
             IN  \A q \in QueueIds :
                     IF TopicOf(q) = topic
                     THEN /\ Len(Q2[q]) <= max_queue_size
                          /\ Last(Q2[q]) = x
                          /\ Q2[q] = IF Len(queues[q]) = max_queue_size
                                     THEN Append(Tail(queues[q]), x)
                                     ELSE Append(queues[q], x)
                     ELSE Q2[q] = queues[q]

\* A publish has evicted from a full queue, which is full again, while a
\* queue of another topic was left alone.
C7_Witness ==
    \E q, p \in QueueIds :
        /\ evicted[q] # <<>>
        /\ Len(queues[q]) = max_queue_size
        /\ Last(queues[q]) = steps
        /\ TopicOf(p) # TopicOf(q)

Range(f) == { f[i] : i \in DOMAIN f }

\* The payloads published on a queue's topic after the queue subscribed.
PublishedAfter(q) ==
    LET all == DictGet(published, TopicOf(q), <<>>)
    IN  SubSeq(all, subscribed_at[q] + 1, Len(all))

\* What the subscriber has dequeued followed by what it will dequeue.
Stream(q) == delivered[q] \o queues[q]

\* C8: what a subscriber dequeues is a subsequence, in publication order, of
\* the payloads published on its topic after it subscribed, with no payload
\* twice; a payload is missing only if it was evicted from the subscriber's
\* own full queue.
C8_FifoAtMostOnce ==
    \A q \in QueueIds :
        /\ Range(Stream(q)) \subseteq Range(PublishedAfter(q))
        /\ \A i, j \in 1 .. Len(Stream(q)) :
              i < j => Stream(q)[i] < Stream(q)[j]
        /\ Range(PublishedAfter(q)) \ Range(Stream(q)) = Range(evicted[q])

\* Two subscribers of one topic: a slow one that lost a payload to eviction
\* and a fast one that dequeued that same payload.
C8_Witness ==
    \E q, p \in QueueIds :
        /\ q # p
        /\ TopicOf(q) = TopicOf(p)
        /\ \E x \in Range(evicted[q]) : x \in Range(delivered[p])
        /\ evicted[p] = <<>>

(***************************************************************************)
(* Specification of the pipeline: the broker client feeds frames to the    *)
(* bus and the orchestrator consumes its tick queue.                       *)
(***************************************************************************)
\* Frames of the broker: a frame without a "tick" key, and tick frames with
\* epoch and quote present or absent.
Frames ==
    {[kind |-> "pong", symbol |-> <<>>, epoch |-> <<>>, quote |-> <<>>]}
    \cup { [kind |-> "tick", symbol |-> <<"R_100">>, epoch |-> e, quote |-> q] :
               e \in {<<>>, <<5>>, <<10>>}, q \in {<<>>, <<2>>} }
    \cup {[kind |-> "tick", symbol |-> <<"R_75">>, epoch |-> <<5>>,
           quote |-> <<2>>]}

\* ProcessTickUseCase.start: subscribe to the tick topic.
StartUseCase ==
    /\ uc_queue = None
    /\ LET r == subscribe(subscribers, queues, TICK_TOPIC)
       IN  /\ subscribers' = r.subscribers
           /\ queues' = r.queues
           /\ uc_queue' = r.queue
    /\ UNCHANGED <<published, subscribed_at, delivered, evicted, steps,
                   tradeVars, candleVars, client, processed_count, last_tick,
                   total_ticks, born, opened, engineVars>>

\* DerivClient._listen receives one frame.
Listen(frame) ==
    /\ steps < MaxFrames
    /\ steps' = steps + 1
    /\ LET r == listen(client, subscribers, queues, frame, max_queue_size)
       IN  /\ client' = r.client
           /\ queues' = r.queues
    /\ UNCHANGED <<subscribers, published, subscribed_at, delivered, evicted,
                   tradeVars, candleVars, uc_queue, processed_count, last_tick,
                   total_ticks, born, opened, engineVars>>

\* One turn of ProcessTickUseCase._run: a tick is taken from the queue and
\* processed.  The topics it publishes on (trade_closed, candle, signal,
\* trade_opened, tick_processed) have no subscriber in this configuration,
\* so those publish calls leave every queue as it is.
RunTick(choice) ==
    /\ uc.loop = "get"
    /\ uc_queue # None
    /\ queues[uc_queue] # <<>>
    /\ LET tick   == Head(queues[uc_queue])
           n      == DictGet(total_ticks, tick.symbol, 0) + 1
           closes == process_tick(building, tick,
                                  candle_interval_seconds).closed # NoCandle
           stored == DictGet(candles, tick.symbol, <<>>)
           signal == IF choice = "none" THEN <<>>
                     ELSE <<signal_for(tick.symbol, choice,
                                       stored[Len(stored)].close)>>
           r      == run_simulator(SimState, tick, signal)
       IN  /\ choice # "none" => closes /\ can_signal(stored)
           /\ queues' = [queues EXCEPT ![uc_queue] = Tail(@)]
           /\ last_tick' = DictPut(last_tick, tick.symbol, tick)
           /\ total_ticks' = DictPut(total_ticks, tick.symbol, n)
           /\ SetSim(r.sim)
           /\ NotifyStats(r.sim.trades, r.closed_trade)
           /\ FeedCandleBuilder(tick)
           /\ FeedAggregator(tick)
           /\ born' = IF r.new_trade # None THEN Append(born, n) ELSE born
           /\ opened' =
                  [id \in DOMAIN r.sim.trades |->
                      IF id \notin DOMAIN trades THEN 0
                      ELSE IF is_pending(trades[id])
                              /\ ~is_pending(r.sim.trades[id])
                      THEN n
                      ELSE opened[id]]
           /\ processed_count' = processed_count + 1
    /\ uc' = loop_test(uc)
    /\ UNCHANGED <<subscribers, published, subscribed_at, delivered, evicted,
                   client, uc_queue, steps, signalVars, indicatorVars,
                   linkVars, uc_log, lifespan>>

ListenStep == \E frame \in Frames : Listen(frame)

RunTickStep == \E choice \in SignalChoices : RunTick(choice)

NextPipeline == StartUseCase \/ ListenStep \/ RunTickStep

SpecPipeline == InitSimulator /\ [][NextPipeline]_vars

(***************************************************************************)
(* Claims about the pipeline (under SpecPipeline)                          *)
(***************************************************************************)
\* C4: a trade created from a signal is not activated by the tick whose
\* processing produced the signal: it stays PENDING until the next tick of
\* its symbol, and that tick only sets entry_price = quote, open_ts = epoch
\* and status = OPEN, without evaluating expiry, SL or TP.
C4_ActivatedByNextTick ==
    \A id \in TradeIds :
        LET t == trades[id]
            n == total_ticks[t.symbol]
        IN  /\ is_pending(t) => n = born[id] /\ opened[id] = 0
            /\ ~is_pending(t) => opened[id] = born[id] + 1
            /\ opened[id] = n =>
                  /\ t.status = "OPEN"
                  /\ t.entry_price = last_tick[t.symbol].quote
                  /\ t.open_timestamp = last_tick[t.symbol].epoch

\* A trade just activated by a tick whose quote is at or beyond its
\* stop-loss, and still OPEN, after a tick of another symbol went by.
C4_Witness ==
    \E id \in TradeIds :
        /\ opened[id] = total_ticks[trades[id].symbol]
        /\ is_open(trades[id])
        /\ sl_hit(trades[id], trades[id].entry_price)
        /\ \E s \in DOMAIN total_ticks : s # trades[id].symbol

Candle(symbol, timestamp, interval, ohlc) ==
    [ symbol |-> symbol, timestamp |-> timestamp, open |-> ohlc[1],
      high |-> ohlc[2], low |-> ohlc[3], close |-> ohlc[4],
      tick_count |-> 1, interval |-> interval ]

\* Buffers of ten closed candles: eight without movement at 10000, then a
\* candle before the last (the swing candidate) and the candle just closed.
\*   swing     : the candidate is a swing high (14000) and a swing low (9000)
\*   reject    : the last candle is turned back at 14000 and closes lower
\*   bounce    : the last candle dips to 9000 and closes higher
\*   tight     : a swing low at 9999, two units under the close 10001
\*   breakdown : the last candle closes at 8000, below every level above
\*   breakout  : the last candle closes at 15000, above every level above
\*   flat      : no movement at all
Shapes == {"swing", "reject", "bounce", "tight", "breakdown"}

Still == <<10000, 10000, 10000, 10000>>

PivotOf(shape) ==
    CASE shape = "swing" -> <<10000, 14000, 9000, 10000>>
      [] shape = "reject" -> <<10000, 12000, 9000, 10000>>
      [] shape = "tight" -> <<10000, 10000, 9999, 10000>>
      [] OTHER -> Still

LastOf(shape) ==
    CASE shape = "swing" -> <<12000, 12000, 10000, 11000>>
      [] shape = "reject" -> <<13000, 14000, 10000, 11000>>
      [] shape = "bounce" -> <<10000, 12000, 9000, 11000>>
      [] shape = "tight" -> <<10000, 14000, 10000, 10001>>
      [] shape = "breakdown" -> <<10000, 10000, 7000, 8000>>
      [] shape = "breakout" -> <<11000, 15000, 11000, 15000>>
      [] OTHER -> Still

BufferOf(symbol, shape, interval, timestamp) ==
    [ k \in 1 .. 10 |->
        Candle(symbol, timestamp - (10 - k) * interval, interval,
               IF k = 10 THEN LastOf(shape)
               ELSE IF k = 9 THEN PivotOf(shape)
               ELSE Still) ]

\* The evaluations happen at consecutive hour boundaries.  At each one a 1h
\* candle and a 5m candle close; the one evaluated is the candle of the
\* active timeframe, which the API can switch between evaluations.
FirstHour == 11 * TIMEFRAME_SECONDS["1h"]

Intervals == {TIMEFRAME_SECONDS["5m"], TIMEFRAME_SECONDS["1h"]}

ClosingAt(interval) == FirstHour + 3600 * steps - interval

\* Indicator snapshots: still in warm-up, EMA 9 under EMA 21 with RSI 70,
\* EMA 9 over EMA 21 with RSI 67.
Snapshot(ema_9, ema_21, rsi_14) ==
    [ema_9 |-> ema_9, ema_21 |-> ema_21, rsi_14 |-> rsi_14]

\* What Signal.generate_id() and time.time() can return to one call:
\* <<id, now>>.
Entropy == {<<"3f2a9c1d7e5b", 50000>>, <<"a07be4429c1f", 50001>>}

\* The inputs of one evaluation: a still market before the indicators are
\* warm, the swing candle with either warmed-up snapshot, every other shape
\* with EMA 9 over EMA 21.  The second symbol only ever sees one candle.
Warming == Snapshot(NoValue, NoValue, NoValue)

Bearish == Snapshot(<<10>>, <<11>>, <<70>>)

Bullish == Snapshot(<<11>>, <<10>>, <<67>>)

Evaluations ==
    { <<"R_100", "flat", Warming>>, <<"R_100", "swing", Bearish>>,
      <<"R_75", "swing", Bullish>> }
    \cup { <<"R_100", shape, Bullish>> : shape \in Shapes }

\* _process_tf_candle for a candle of the active timeframe: the S/R update,
\* then evaluate.  The history records the candle and the condition lists
\* of every call that returned a Signal.
process_tf_candle(run, candles_buffer, indicators, id, now) ==
    CHOOSE next \in
        { [ sr_states |-> pair[1], engine |-> pair[2].engine,
            emissions |->
                IF pair[2].signal = NoSignal THEN run.emissions
                ELSE Append(run.emissions,
                            [ signal |-> pair[2].signal[1],
                              candle |-> candles_buffer[Len(candles_buffer)],
                              buy |-> pair[2].buy, sell |-> pair[2].sell ]) ] :
            pair \in
                { <<SR, evaluate(run.engine, SR,
                                 candles_buffer[Len(candles_buffer)],
                                 indicators, candles_buffer, id, now)>> :
                    SR \in {sr_update(run.sr_states,
                                      candles_buffer[Len(candles_buffer)],
                                      candles_buffer)} } } : TRUE

SetEngine(run) ==
    /\ sr_states' = run.sr_states
    /\ prev_indicators' = run.engine.prev_indicators
    /\ last_signal_ts' = run.engine.last_signal_ts
    /\ recent_signals' = run.engine.recent_signals
    /\ engine_stats' = run.engine.stats
    /\ emissions' = run.emissions

EvaluateCandle(symbol, shape, interval, indicators, id, now) ==
    /\ steps < MaxEvaluations
    /\ steps' = steps + 1
    /\ \E run \in {process_tf_candle(
                        EngineRun,
                        BufferOf(symbol, shape, interval, ClosingAt(interval)),
                        indicators, id, now)} :
           SetEngine(run)
    /\ UNCHANGED <<replay, tradeVars, candleVars, busVars, pipeVars,
                   statsVars, indicatorVars,
                   linkVars, orchVars>>

EvaluateCandleStep ==
    \E input \in Evaluations, interval \in Intervals, drawn \in Entropy :
        EvaluateCandle(input[1], input[2], interval, input[3],
                       drawn[1], drawn[2])

NextSignal == EvaluateCandleStep

SpecSignal == InitSimulator /\ [][NextSignal]_vars

(***************************************************************************)
(* Claims about the signal engine (under SpecSignal)                       *)
(***************************************************************************)
\* Emissions i < j are consecutive signals of one symbol.
ConsecutiveSignals(i, j) ==
    /\ i < j
    /\ emissions[i].candle.symbol = emissions[j].candle.symbol
    /\ \A k \in (i + 1) .. (j - 1) :
           emissions[k].candle.symbol # emissions[i].candle.symbol

\* C13, as stated: two consecutive signals of a symbol, on closed candles c1
\* and then c2, are at least cooldown_candles intervals of c1 apart.
C13_CooldownOfFirstCandle ==
    \A i, j \in DOMAIN emissions :
        ConsecutiveSignals(i, j) =>
            emissions[j].candle.timestamp - emissions[i].candle.timestamp
                >= cooldown_candles * emissions[i].candle.interval

\* C13, amended: two consecutive signals of a symbol, on closed candles c1
\* and then c2, are at least cooldown_candles intervals of c2 (the candle
\* under evaluation) apart, also when the active timeframe changed between
\* them; the engine remembers c1.timestamp as the symbol's last signal time.
C13_CooldownOfEvaluatedCandle ==
    /\ \A i, j \in DOMAIN emissions :
           ConsecutiveSignals(i, j) =>
               emissions[j].candle.timestamp - emissions[i].candle.timestamp
                   >= cooldown_candles * emissions[j].candle.interval
    /\ \A i \in DOMAIN emissions :
           (\A k \in (i + 1) .. Len(emissions) :
                emissions[k].candle.symbol # emissions[i].candle.symbol)
           => last_signal_ts[emissions[i].candle.symbol]
                  = emissions[i].candle.timestamp

\* Two consecutive signals of one symbol on candles of different timeframes.
C13_Witness ==
    \E i, j \in DOMAIN emissions :
        /\ ConsecutiveSignals(i, j)
        /\ emissions[i].candle.interval # emissions[j].candle.interval

\* C14, as stated: BUY only with more buy than sell conditions, SELL only
\* with more sell than buy conditions (and at least min_confirmations).
C14_StrictMajority ==
    \A i \in DOMAIN emissions :
        LET e == emissions[i]
        IN  /\ e.signal.signal_type = "BUY" =>
                   /\ Len(e.buy) >= min_confirmations
                   /\ Len(e.buy) > Len(e.sell)
            /\ e.signal.signal_type = "SELL" =>
                   /\ Len(e.sell) >= min_confirmations
                   /\ Len(e.sell) > Len(e.buy)

\* C14, amended: a BUY signal has at least min_confirmations buy conditions
\* and carries them; a SELL signal has at least min_confirmations sell
\* conditions, fewer than min_confirmations buy conditions, and carries the
\* sell conditions.  When both lists reach min_confirmations the signal is
\* a BUY, whatever their sizes.
C14_BuyFirst ==
    \A i \in DOMAIN emissions :
        LET e == emissions[i]
        IN  /\ e.signal.signal_type \in {"BUY", "SELL"}
            /\ e.signal.signal_type = "BUY" =>
                   /\ Len(e.buy) >= min_confirmations
                   /\ e.signal.conditions = e.buy
            /\ e.signal.signal_type = "SELL" =>
                   /\ Len(e.sell) >= min_confirmations
                   /\ Len(e.buy) < min_confirmations
                   /\ e.signal.conditions = e.sell
            /\ e.signal.confidence = Len(e.signal.conditions)

\* A signal emitted although the sell conditions were as many as the buy
\* conditions, both reaching min_confirmations.
C14_Witness ==
    \E i \in DOMAIN emissions :
        /\ Len(emissions[i].sell) >= min_confirmations
        /\ Len(emissions[i].buy) = Len(emissions[i].sell)
        /\ emissions[i].signal.signal_type = "BUY"

\* C15: every emitted Signal has rr >= min_rr, a stop at least min_sl_pct of
\* the entry away, and stop_loss < entry < take_profit (BUY) or
\* take_profit < entry < stop_loss (SELL).
C15_RiskBounds ==
    \A i \in DOMAIN emissions :
        LET s == emissions[i].signal
            sl_distance == IF s.entry >= s.stop_loss
                           THEN s.entry - s.stop_loss
                           ELSE s.stop_loss - s.entry
        IN  /\ s.rr[2] > 0
            /\ s.rr[1] >= min_rr * s.rr[2]
            /\ s.entry > 0
            /\ sl_distance * min_sl_pct[2] >= min_sl_pct[1] * s.entry
            /\ s.signal_type = "BUY" =>
                   s.stop_loss < s.entry /\ s.entry < s.take_profit
            /\ s.signal_type = "SELL" =>
                   s.take_profit < s.entry /\ s.entry < s.stop_loss

\* A Signal was emitted after a stop too close to its entry had been
\* filtered (a swing low two units under a close of 10001).
C15_Witness ==
    /\ emissions # <<>>
    /\ engine_stats.total_filtered_rr > 0

\* ---------------------------------------------------------------------
\* Specification of the breakout test: R_100 is evaluated with candles
\* that leave swing levels behind (swing) and with strong candles that
\* close above (breakout) or below (breakdown) every level stored, under
\* either warmed-up snapshot.
\* ---------------------------------------------------------------------
BreakoutShapes == {"swing", "breakout", "breakdown"}

EvaluateBreakoutStep ==
    \E shape \in BreakoutShapes, indicators \in {Bearish, Bullish} :
        \E interval \in Intervals, drawn \in Entropy :
            EvaluateCandle("R_100", shape, interval, indicators,
                           drawn[1], drawn[2])

NextBreakout == EvaluateBreakoutStep

SpecBreakout == InitSimulator /\ [][NextBreakout]_vars

LevelsBefore(levels, candle) ==
    {levels[k][1] : k \in {j \in DOMAIN levels :
                                levels[j][2] < candle.timestamp}}

Previous(symbol) == DictGet(prev_indicators, symbol, Warming)

\* The emissions a step added.
Emitted == {emissions'[i] : i \in Len(emissions) + 1 .. Len(emissions')}

\* C37: every call of evaluate for a symbol leaves the snapshot it was
\* given as the symbol's previous snapshot, whatever it returned, and
\* touches no other symbol's; so a signal's cross and reversal conditions
\* are those of the given snapshot against the one of the evaluation
\* before.
C37_SnapshotStored ==
    [][ \A input \in Evaluations :
            \/ /\ prev_indicators'
                      = [ symbol \in DOMAIN prev_indicators \cup {input[1]} |->
                            IF symbol = input[1] THEN input[3]
                            ELSE prev_indicators[symbol] ]
               /\ \A emission \in Emitted :
                      /\ COND_EMA_CROSS \in Range(emission.buy)
                             => /\ Previous(input[1]).ema_9[1]
                                       < Previous(input[1]).ema_21[1]
                                /\ input[3].ema_9[1] > input[3].ema_21[1]
                      /\ COND_EMA_CROSS \in Range(emission.sell)
                             => /\ Previous(input[1]).ema_9[1]
                                       > Previous(input[1]).ema_21[1]
                                /\ input[3].ema_9[1] < input[3].ema_21[1]
            \/ \A interval \in Intervals, drawn \in Entropy :
                   ~EvaluateCandle(input[1], input[2], interval, input[3],
                                   drawn[1], drawn[2])
      ]_vars

\* R_100 was evaluated with the bearish snapshot, then with the bullish
\* one, which gave a signal, and then again with the bearish one, which
\* gave none: the snapshot held is the last one.
C37_Witness ==
    /\ engine_stats.total_evaluated = 3
    /\ engine_stats.total_signals = 1
    /\ Len(emissions) = 1
    /\ emissions[1].candle.symbol = "R_100"
    /\ "R_100" \in DOMAIN prev_indicators
    /\ prev_indicators["R_100"] = Bearish

(***************************************************************************)
(* Specification of the simulator with its stats engine: open_trade and    *)
(* evaluate_tick calls as in SpecTrade, and get_metrics calls (the stats   *)
(* API) between them.                                                      *)
(***************************************************************************)
\* get_metrics(symbol).  The history counts, per cache key, the calls and
\* the compute() runs since the key was last invalidated.
GetMetrics(symbol) ==
    LET cache_key == IF symbol # NoSymbol THEN symbol ELSE GLOBAL_KEY
        before == DictGet(computes, cache_key, [calls |-> 0, runs |-> 0])
    IN  /\ queries < MaxQueries
        /\ queries' = queries + 1
        /\ \E r \in {get_metrics(stats_cache, trades, closed_trades,
                                  closed_keys, symbol)} :
               /\ stats_cache' = r.cache
               /\ computes' = DictPut(computes, cache_key,
                                      [calls |-> before.calls + 1,
                                       runs |-> before.runs + r.computed])
        /\ UNCHANGED <<steps, tradeVars, candleVars, busVars, pipeVars,
                       signalVars, indicatorVars,
                   linkVars, orchVars>>

GetMetricsStep == \E symbol \in Symbols \cup {NoSymbol} : GetMetrics(symbol)

\* The simulator's inputs here: the BUY of R_100 and the SELL of R_75, and
\* quotes on their two levels at epoch 0 (each closes one of them with a
\* loss and the other with a profit), and a late quote of R_75 between the
\* levels, max_duration_seconds after the SELL was opened, which expires
\* it above or below its entry.
StatsOpenStep ==
    \E signal \in {s \in Signals : s.stop_loss # s.take_profit} :
        OpenTrade(signal)

LateQuote(symbol, price) ==
    /\ get_active_trade(active_trades, symbol) # None
    /\ is_open(trades[get_active_trade(active_trades, symbol)])
    /\ EvaluateTick(symbol, price, max_duration_seconds)

StatsTickStep ==
    \/ \E symbol \in Symbols, price \in {1, 3} :
           EvaluateTick(symbol, price, 0)
    \/ LateQuote("R_75", 2)

NextStats == StatsOpenStep \/ StatsTickStep \/ GetMetricsStep

SpecStats == InitSimulator /\ [][NextStats]_vars

(***************************************************************************)
(* Claims about the stats engine (under SpecStats)                         *)
(***************************************************************************)
\* C16: among the get_metrics calls of a key made since the key was last
\* invalidated by on_trade_closed, at most one ran compute().
C16_OneComputePerInvalidation ==
    \A key \in DOMAIN computes : computes[key].runs <= 1

\* Two or more get_metrics calls of one key without a closure in between,
\* of which one computed.
C16_Witness ==
    \E key \in DOMAIN computes :
        computes[key].calls >= 2 /\ computes[key].runs = 1

\* What get_metrics(symbol) has to return: compute over the closed trades
\* stored for the filter, by close time.
Fresh(symbol) ==
    compute(sorted_by_close(
                get_closed_trades(trades, closed_trades, closed_keys, symbol),
                FALSE))

\* C17: in every state, get_metrics(s) returns compute() of the closed
\* trades stored for s (all symbols without s), also when the history is
\* at its cap and a closure left the count unchanged.
C17_MetricsAreFresh ==
    \A symbol \in Symbols \cup {NoSymbol} :
        get_metrics(stats_cache, trades, closed_trades, closed_keys,
                    symbol).metrics = Fresh(symbol)

\* The symbol's slot is cached again after its history overflowed: a closed
\* trade of the symbol is no longer stored, and the count stayed at the cap.
C17_Witness ==
    \E symbol \in DOMAIN stats_cache \cap DOMAIN closed_trades :
        /\ Len(closed_trades[symbol]) = MAX_HISTORY
        /\ stats_cache[symbol][1] = MAX_HISTORY
        /\ \E id \in DOMAIN trades :
               /\ trades[id].symbol = symbol
               /\ is_closed(trades[id])
               /\ \A i \in DOMAIN closed_trades[symbol] :
                      closed_trades[symbol][i] # id

(***************************************************************************)
(* Two engines on one stream: the second engine is fed every candle the   *)
(* first one is fed, and draws its own uuid4 and its own time.time().      *)
(***************************************************************************)
ReplayCandle(symbol, shape, interval, indicators, first, second) ==
    /\ steps < MaxEvaluations
    /\ steps' = steps + 1
    /\ \E candles_buffer \in {BufferOf(symbol, shape, interval,
                                       ClosingAt(interval))} :
           /\ \E run \in {process_tf_candle(EngineRun, candles_buffer,
                                             indicators, first[1], first[2])} :
                  SetEngine(run)
           /\ replay' = process_tf_candle(replay, candles_buffer, indicators,
                                          second[1], second[2])
    /\ UNCHANGED <<tradeVars, candleVars, busVars, pipeVars, statsVars,
                   indicatorVars,
                   linkVars, orchVars>>

ReplayCandleStep ==
    \E input \in Evaluations, interval \in Intervals,
       first \in Entropy, second \in Entropy :
        ReplayCandle(input[1], input[2], interval, input[3], first, second)

NextReplay == ReplayCandleStep

SpecReplay == InitSimulator /\ [][NextReplay]_vars

\* A Signal without the two fields drawn at generation.
Blind(signal) == [signal EXCEPT !.id = "", !.timestamp = 0]

BlindAll(signals) == [i \in DOMAIN signals |-> Blind(signals[i])]

ExampleCloses == <<10, 11, 10, 11, 12, 11, 12, 13, 12, 13, 14, 13, 14, 15, 14>>

Fed(symbol) == DictGet(returned, symbol, <<>>)

\* The closes of the warm-up buffer, in price units.
BufferedCloses(symbol) ==
    LET closes == indicator_state_of(indicator_states, symbol).warmup_closes
    IN  [i \in DOMAIN closes |-> closes[i] \div Scale]

LastClose(symbol) == indicator_states[symbol].prev_close[1] \div Scale

Closes(symbol) ==
    LET n == Len(Fed(symbol)) + 1
    IN  IF n = 1 THEN {ExampleCloses[1]}
        ELSE IF n <= Len(ExampleCloses)
        THEN IF BufferedCloses(symbol) = SubSeq(ExampleCloses, 1, n - 1)
             THEN {ExampleCloses[n]}
                      \cup (IF n = 2 THEN {LastClose(symbol)} ELSE {})
             ELSE {LastClose(symbol)}
        ELSE IF n <= LastMove
        THEN {LastClose(symbol) - 1, LastClose(symbol), LastClose(symbol) + 1}
        ELSE {LastClose(symbol)}

UpdateIndicators(symbol, price) ==
    /\ steps < MaxCloses
    /\ steps' = steps + 1
    /\ \E r \in {indicator_update(
                      indicator_states,
                      Candle(symbol,
                             TIMEFRAME_SECONDS["5m"] * Len(Fed(symbol)),
                             TIMEFRAME_SECONDS["5m"],
                             <<price, price, price, price>>))} :
           /\ indicator_states' = r.states
           /\ returned' = DictPut(returned, symbol,
                                  Append(Fed(symbol), r.result))
    /\ UNCHANGED <<tf_candles, tf_published, tradeVars, candleVars, busVars,
                   pipeVars, signalVars, statsVars,
                   linkVars, orchVars>>

UpdateIndicatorsStep ==
    \E symbol \in Symbols :
        \E price \in Closes(symbol) :
            UpdateIndicators(symbol, price)

\* _process_tf_candle(timeframe, candle): add_tf_candle, the publication on
\* tf_candle, then  self._indicator_service.update(candle, timeframe).  The
\* call raises, _run logs the exception and goes on with the next tick, and
\* the rest of _process_tf_candle (tf_indicators, S/R, signal, trade) is
\* not reached.
ProcessTfCandle(symbol, timeframe, price) ==
    LET buffer == DictGet(tf_candles, <<symbol, timeframe>>, <<>>)
        candle == Candle(symbol, TIMEFRAME_SECONDS[timeframe] * Len(buffer),
                         TIMEFRAME_SECONDS[timeframe],
                         <<price, price, price, price>>)
    IN  /\ Len(tf_published) < MaxTfCandles
        /\ tf_candles' = DictPut(tf_candles, <<symbol, timeframe>>,
                                 DequeAppend(buffer, candle,
                                             max_candles_buffer))
        /\ tf_published' =
               Append(tf_published,
                      [ topic |-> TF_CANDLE_TOPIC, timeframe |-> timeframe,
                        data |-> candle ])
        /\ \E r \in {call_update(indicator_states, <<candle, timeframe>>)} :
               /\ r.raised
               /\ indicator_states' = r.states
        /\ UNCHANGED <<returned, steps, tradeVars, candleVars, busVars,
                       pipeVars, signalVars, statsVars,
                   linkVars, orchVars>>

ProcessTfCandleStep ==
    \E timeframe \in {"5m", "1h"} : ProcessTfCandle("R_100", timeframe, 10)

NextIndicator == UpdateIndicatorsStep \/ ProcessTfCandleStep

SpecIndicator == InitSimulator /\ [][NextIndicator]_vars

(***************************************************************************)
(* Claims about the indicator engine (under SpecIndicator)                 *)
(***************************************************************************)
\* The snapshot get_indicators gives for a symbol that has been fed.
Indicators(symbol) == get_indicators(indicator_states, symbol)[1]

PublishedOn(topic) ==
    SelectSeq(tf_published, LAMBDA p : p.topic = topic)

\* C20 as stated: every update returns a snapshot, and every closed TF
\* candle processed has its snapshot published on tf_indicators.
C20_SnapshotEveryUpdate ==
    /\ \A symbol \in DOMAIN returned :
           \A i \in DOMAIN returned[symbol] : returned[symbol][i] # <<>>
    /\ Len(PublishedOn(TF_INDICATORS_TOPIC))
           = Len(PublishedOn(TF_CANDLE_TOPIC))

\* C20, amended: update returns None for each of the first MIN_WARMUP - 1
\* candles of a symbol and from then on a snapshot whose three values are
\* non-null; nothing with a null value is published on tf_indicators.
C20_NoneUntilWarm ==
    /\ \A symbol \in DOMAIN returned :
           \A i \in DOMAIN returned[symbol] :
               IF i < MIN_WARMUP THEN returned[symbol][i] = <<>>
               ELSE /\ returned[symbol][i] # <<>>
                    /\ returned[symbol][i][1].warmup_count = i
                    /\ returned[symbol][i][1].ema_9 # NoValue
                    /\ returned[symbol][i][1].ema_21 # NoValue
                    /\ returned[symbol][i][1].rsi_14 # NoValue
    /\ \A i \in DOMAIN tf_published :
           tf_published[i].topic = TF_INDICATORS_TOPIC =>
               /\ tf_published[i].data.ema_9 # NoValue
               /\ tf_published[i].data.ema_21 # NoValue
               /\ tf_published[i].data.rsi_14 # NoValue

\* update has returned None during the warm-up of a symbol and then its
\* first snapshot, and a closed TF candle has gone through
\* _process_tf_candle.
C20_Witness ==
    /\ \E symbol \in DOMAIN returned :
           /\ Len(returned[symbol]) >= MIN_WARMUP
           /\ returned[symbol][MIN_WARMUP - 1] = <<>>
           /\ returned[symbol][MIN_WARMUP] # <<>>
    /\ tf_published # <<>>

\* The symbols that have been fed exactly the fifteen closes of
\* ExampleCloses.
FedExample ==
    { symbol \in DOMAIN indicator_states :
        BufferedCloses(symbol) = ExampleCloses }

\* C21 as stated: the fifteen closes seed avg_gain = 6/14 and
\* avg_loss = 5/14, and rsi is 54.55.
C21_SeedSixFourteenths ==
    \A symbol \in FedExample :
        /\ indicator_states[symbol].avg_gain = <<Smoothed(Quot(6, 14))>>
        /\ indicator_states[symbol].avg_loss = <<Smoothed(Quot(5, 14))>>
        /\ Indicators(symbol).rsi_14 = <<5455>>

\* C21, amended: the fifteen closes hold nine rises and five falls of 1, so
\* the seed is avg_gain = 9/14 and avg_loss = 5/14, and
\* rsi = 100 * avg_gain / (avg_gain + avg_loss) = 900/14, shown as 64.29.
C21_SeedNineFourteenths ==
    \A symbol \in FedExample :
        LET state == indicator_states[symbol]
        IN  /\ state.avg_gain = <<Smoothed(Quot(9, 14))>>
            /\ state.avg_loss = <<Smoothed(Quot(5, 14))>>
            /\ state.rsi =
                   <<QDiv(QMul(<<100, 1>>, state.avg_gain[1].q),
                          QAdd(state.avg_gain[1].q, state.avg_loss[1].q))>>
            /\ Indicators(symbol).rsi_14 = <<6429>>

\* A symbol has just been fed the fifteenth close of the example.
C21_Witness ==
    \E symbol \in FedExample :
        /\ indicator_states[symbol].warmup_count = Len(ExampleCloses)
        /\ indicator_states[symbol].rsi # NoValue

\* The distance of an optional value in units of 1 / Scale from a close in
\* the same units.
Distance(value, target) == Abs(value[1] - target)

\* An update of a warmed-up symbol with a close that repeats the one before.
RepeatedClose(symbol) ==
    /\ symbol \in DOMAIN indicator_states
    /\ indicator_states[symbol].warmup_count >= MIN_WARMUP
    /\ indicator_states'[symbol].warmup_count
           = indicator_states[symbol].warmup_count + 1
    /\ indicator_states'[symbol].prev_close
           = indicator_states[symbol].prev_close

\* The smoothed average new is the average old times (period - 1) / period:
\* the same quotient decayed once more (zero stays zero).
TimesKeep(new, old) ==
    /\ new.q = old.q
    /\ new.decay = IF old.q = Zero THEN old.decay ELSE old.decay + 1

History(symbol) ==
    sorted_by_close(
        get_closed_trades(trades, closed_trades, closed_keys, symbol), FALSE)

Filters == Symbols \cup {NoSymbol}

QSame(a, b) == ~QLess(a, b) /\ ~QLess(b, a)

QMax(S) == CHOOSE q \in S : \A r \in S : ~QLess(q, r)

\* equity_i: the cumulative pnl_percent of the first i trades; equity_0 = 0.
RECURSIVE Equity(_, _)
Equity(list, i) ==
    IF i = 0 THEN Zero ELSE QAdd(Equity(list, i - 1), list[i].pnl_percent)

\* The greatest of equity_first .. equity_i, and the greatest fall below it.
Peak(list, i, first) == QMax({Equity(list, j) : j \in first .. i})

Drawdown(list, first) ==
    QMax({QSub(Peak(list, i, first), Equity(list, i)) : i \in 1 .. Len(list)})

\* The i-th point of the equity curve is equity_i.
CurveIsEquity(list) ==
    LET curve == compute(list).equity_curve
    IN  /\ Len(curve) = Len(list)
        /\ \A i \in DOMAIN curve : QSame(curve[i], Equity(list, i))

\* C23 as stated: max_drawdown is the greatest peak_i - equity_i with peak_i
\* the greatest of equity_1 .. equity_i, and the curve's i-th point is
\* equity_i.
C23_PeakOverTrades ==
    \A symbol \in Filters :
        History(symbol) # <<>> =>
            /\ QSame(compute(History(symbol)).max_drawdown,
                     Drawdown(History(symbol), 1))
            /\ CurveIsEquity(History(symbol))

\* C23, amended: max_drawdown is the greatest peak_i - equity_i with peak_i
\* the greatest of 0 (the equity before the first trade) and equity_1 ..
\* equity_i, over the trades in close-time order, and the curve's i-th
\* point is equity_i.
C23_PeakFromZero ==
    \A symbol \in Filters :
        History(symbol) # <<>> =>
            /\ QSame(compute(History(symbol)).max_drawdown,
                     Drawdown(History(symbol), 0))
            /\ CurveIsEquity(History(symbol))

\* A history of two trades closed at different times, stored latest-first
\* by the state, whose first trade lost and whose second won: a drawdown
\* from the starting equity.
C23_Witness ==
    LET list == History(NoSymbol)
    IN  /\ Len(list) >= 2
        /\ list[1].close_timestamp < list[2].close_timestamp
        /\ list[1].pnl_percent[1] < 0
        /\ list[2].pnl_percent[1] > 0
        /\ compute(list).max_drawdown[1] > 0

\* C24: in the metrics of every history the simulator produces, wins is
\* the number of trades with pnl_percent > 0 and losses the number with
\* pnl_percent < 0.
C24_WinsArePositivePnl ==
    \A symbol \in Filters :
        LET list == History(symbol)
        IN  list # <<>> =>
                /\ compute(list).wins
                       = Cardinality({i \in DOMAIN list :
                                          list[i].pnl_percent[1] > 0})
                /\ compute(list).losses
                       = Cardinality({i \in DOMAIN list :
                                          list[i].pnl_percent[1] < 0})

(***************************************************************************)
(* Specification of the broker client's life cycle: start() and stop()     *)
(* calls, the steps of the connect task and of the heartbeat task, and     *)
(* the broker, which accepts or refuses a connection, sends frames and     *)
(* closes the connection.                                                  *)
(***************************************************************************)
LinkFrames ==
    {[kind |-> "pong", symbol |-> <<>>, epoch |-> <<>>, quote |-> <<>>],
     [kind |-> "tick", symbol |-> <<"R_100">>, epoch |-> <<5>>,
      quote |-> <<2>>]}

\* The history after a step from conn to C: the waits begun since the last
\* successful open, the pings sent since the last pong, and whether a
\* connection attempt or a Tick was made after stop() returned.
Logged(C, opened_, pinged, ponged, acted) ==
    [conn_log EXCEPT
        !.waits = IF opened_ THEN 0
                  ELSE IF C.connect_task = "sleep"
                          /\ conn.connect_task # "sleep"
                  THEN @ + 1 ELSE @,
        !.unanswered = IF opened_ \/ ponged THEN 0
                       ELSE IF pinged THEN Min(@ + 1, 2) ELSE @,
        !.ping_failed = IF opened_ THEN FALSE ELSE @,
        !.after_stop = @ \/ (acted /\ conn.stopping = "returned")]

LinkOnly ==
    UNCHANGED <<steps, tradeVars, candleVars, busVars, pipeVars, signalVars,
                statsVars, indicatorVars, orchVars>>

Step(C, opened_, pinged, ponged, acted) ==
    /\ conn' = C
    /\ conn_log' = Logged(C, opened_, pinged, ponged, acted)

\* await deriv_client.start()
Start ==
    /\ conn.stopping \in {"idle", "returned"}
    /\ ~conn.running
    /\ conn' = [start(conn) EXCEPT !.stopping = "idle"]
    /\ conn_log' = [conn_log EXCEPT !.after_stop = FALSE,
                                    !.stopped_in = "none"]
    /\ LinkOnly

\* await deriv_client.stop(), up to its first await.
Stop ==
    /\ conn.stopping = "idle"
    /\ conn' = stop_begin(conn)
    /\ conn_log' = [conn_log EXCEPT !.stopped_in = conn.connect_task]
    /\ LinkOnly

\* stop() resumes: ws.close() has finished, or the connect task has.
StopResume ==
    /\ \/ /\ conn.stopping = "closing"
          /\ conn.socket = "closed"
          /\ Step(stop_join(conn), FALSE, FALSE, FALSE, FALSE)
       \/ /\ conn.stopping = "joining"
          /\ Step([conn EXCEPT !.stopping = "returned"],
                  FALSE, FALSE, FALSE, FALSE)
    /\ LinkOnly

\* The connect task tests _running: on its first turn and after a wait.
LoopTop ==
    /\ conn.connect_task \in {"top", "sleep"}
    /\ Step(loop_top(conn), FALSE, FALSE, FALSE, conn.running)
    /\ LinkOnly

\* websockets.connect finishes; a refusal is followed by a wait.
Connect(ok, u) ==
    /\ conn.connect_task = "connect"
    /\ ~ok => conn.reconnect_attempt < MaxAttempts
    /\ Step(connected(conn, ok, u), ok, FALSE, FALSE, FALSE)
    /\ LinkOnly

\* _subscribe_symbols finishes: its sends succeed on an open connection.
SubscribeSymbols(u) ==
    /\ conn.connect_task = "subscribe"
    /\ Step(subscribed(conn, conn.socket = "open", u),
            FALSE, FALSE, FALSE, FALSE)
    /\ LinkOnly

\* `async for raw_msg in ws` yields a frame: _listen leaves when _running
\* is cleared, else handles the frame.
LinkListen(frame, u) ==
    /\ conn.connect_task = "listen"
    /\ conn.socket \in {"open", "closing"}
    /\ steps < MaxFrames
    /\ steps' = steps + 1
    /\ IF ~conn.running
       THEN /\ Step(after_try(conn, u), FALSE, FALSE, FALSE, FALSE)
            /\ UNCHANGED <<client, queues>>
       ELSE /\ Step(conn, FALSE, FALSE, frame.kind = "pong",
                    frame.kind = "tick")
            /\ \E r \in {listen(client, subscribers, queues, frame,
                                max_queue_size)} :
                   client' = r.client /\ queues' = r.queues
    /\ UNCHANGED <<subscribers, published, subscribed_at, delivered, evicted,
                   tradeVars, candleVars, uc_queue, processed_count,
                   last_tick, total_ticks, born, opened, signalVars,
                   statsVars, indicatorVars, orchVars>>

\* `async for raw_msg in ws` ends or raises: the connection is closed.
ListenEnd(u) ==
    /\ conn.connect_task = "listen"
    /\ conn.socket = "closed"
    /\ Step(after_try(conn, u), FALSE, FALSE, FALSE, FALSE)
    /\ LinkOnly

\* A turn of the heartbeat task; a send succeeds on an open connection and
\* raises on one that is closing.
Heartbeat ==
    /\ conn.heartbeat_task \in {"start", "sleep"}
    /\ LET sent == conn.socket = "open"
           C == heartbeat(conn, sent)
           pinging == conn.heartbeat_task = "sleep" /\ conn.socket # "closed"
       IN  /\ conn' = C
           /\ conn_log' =
                  [Logged(C, FALSE, pinging /\ sent, FALSE, FALSE) EXCEPT
                      !.ping_failed = @ \/ (pinging /\ ~sent /\ conn.running)]
    /\ LinkOnly

\* The broker or the network ends the connection: the close handshake
\* starts.
BrokerCloses ==
    /\ conn.socket = "open"
    /\ Step([conn EXCEPT !.socket = "closing"], FALSE, FALSE, FALSE, FALSE)
    /\ LinkOnly

\* A close handshake finishes (close_timeout bounds it).
CloseCompletes ==
    /\ conn.socket = "closing"
    /\ Step([conn EXCEPT !.socket = "closed"], FALSE, FALSE, FALSE, FALSE)
    /\ LinkOnly

ConnectStep == \E ok \in BOOLEAN, u \in Draws : Connect(ok, u)

SubscribeSymbolsStep == \E u \in Draws : SubscribeSymbols(u)

LinkListenStep == \E frame \in LinkFrames, u \in Draws : LinkListen(frame, u)

ListenEndStep == \E u \in Draws : ListenEnd(u)

NextLink ==
    \/ Start \/ Stop \/ StopResume \/ LoopTop \/ ConnectStep
    \/ SubscribeSymbolsStep \/ LinkListenStep \/ ListenEndStep \/ Heartbeat
    \/ BrokerCloses \/ CloseCompletes

SpecLink == InitSimulator /\ [][NextLink]_vars

\* The event loop runs every task that is ready, a connection attempt ends
\* (with a connection or an error) and a close handshake ends; the broker
\* need not send a frame nor close the connection.
SpecLinkLive ==
    /\ SpecLink
    /\ WF_vars(StopResume) /\ WF_vars(LoopTop) /\ WF_vars(ConnectStep)
    /\ WF_vars(SubscribeSymbolsStep) /\ WF_vars(ListenEndStep)
    /\ WF_vars(Heartbeat) /\ WF_vars(CloseCompletes)

(***************************************************************************)
(* Claims about the broker client (under SpecLink and SpecLinkLive)        *)
(***************************************************************************)
\* C25: reconnect_attempt is the number of waits begun since the last
\* successful open (0 after an open, one more per wait), and a wait lasts
\* d + j with d = min(base * 2^attempt, cap) for the attempt counted before
\* the wait, and 0 <= j <= 0.3 d; d never exceeds cap.
C25_BackoffWait ==
    /\ conn.reconnect_attempt = conn_log.waits
    /\ conn.connect_task = "sleep" =>
           LET d == Min(ws_reconnect_base_delay * 2 ^ (conn_log.waits - 1),
                        ws_reconnect_max_delay)
           IN  /\ d <= ws_reconnect_max_delay
               /\ ~QLess(conn.total_delay, <<d, 1>>)
               /\ ~QLess(QAdd(<<d, 1>>, Quot(3 * d, 10)), conn.total_delay)

\* The seventh wait in a row: base * 2^6 exceeds the cap, and the wait is
\* longer than the cap by its jitter.
C25_Witness ==
    /\ conn.connect_task = "sleep"
    /\ conn_log.waits >= 7
    /\ QLess(<<ws_reconnect_max_delay, 1>>, conn.total_delay)

\* C26: once a heartbeat ping could not be sent, or two pings in a row got
\* no pong, while the client runs, the connection is torn down and the
\* client comes to wait for, or make, a new connection attempt.
Unanswered == conn_log.ping_failed \/ conn_log.unanswered >= 2

C26_SilenceIsDisconnect ==
    (conn.running /\ Unanswered)
        ~> (~conn.running \/ conn.connect_task \in {"sleep", "connect"})

\* The part of C26 that the code provides: a ping that could not be sent.
PingFailureIsDisconnect ==
    (conn.running /\ conn_log.ping_failed)
        ~> (~conn.running \/ conn.connect_task \in {"sleep", "connect"})

\* C27: after stop() has returned and until start() is called, the client
\* is not running, its socket is closed (or there never was one), the
\* connect task and the heartbeat task have ended, and no connection
\* attempt and no Tick was made since.
C27_StoppedIsQuiet ==
    conn.stopping = "returned" =>
        /\ ~conn.running
        /\ conn.socket \in {"none", "closed"}
        /\ Ended(conn.connect_task)
        /\ Ended(conn.heartbeat_task)
        /\ ~conn_log.after_stop

\* stop() has returned after a call made while the client was connected
\* and had published ticks.
C27_Witness ==
    /\ conn.stopping = "returned"
    /\ conn_log.stopped_in = "listen"
    /\ conn.socket = "closed"
    /\ client.ticks_received > 0

StoppedWhileConnecting ==
    conn.stopping = "returned" /\ conn_log.stopped_in = "connect"

StoppedWhileWaiting ==
    conn.stopping = "returned" /\ conn_log.stopped_in = "sleep"

(***************************************************************************)
(* Claims about malformed frames (under SpecPipeline)                      *)
(***************************************************************************)
\* A tick frame without symbol, epoch or quote.
LacksField(frame) ==
    /\ frame.kind = "tick"
    /\ <<>> \in {frame.symbol, frame.epoch, frame.quote}

\* C28: a tick frame that lacks symbol, epoch or quote is dropped: _listen
\* counts and publishes no Tick for it.
C28_MalformedDropped ==
    [][\A frame \in Frames :
           Listen(frame) /\ LacksField(frame)
               => client' = client /\ queues' = queues
      ]_vars

(***************************************************************************)
(* Specification of the timeframe selector: _process_tf_candle is called   *)
(* with closed candles of two timeframes, the API switches the active      *)
(* timeframe between the calls, and the use case is constructed with any   *)
(* of the indicator services before the first call.                        *)
(***************************************************************************)
\* The pieces of state _process_tf_candle works on.
Pieces ==
    [ tf_candles |-> tf_candles, tf_published |-> tf_published,
      indicator_states |-> indicator_states, run |-> EngineRun,
      sim |-> SimState, log |-> uc_log, raised |-> FALSE ]

\* An entry of the history: which step ran, for a candle of which
\* timeframe, under which active timeframe.
Gated(U, op, timeframe, candle) ==
    [ op |-> op, timeframe |-> timeframe, active |-> U.active_timeframe,
      symbol |-> candle.symbol, timestamp |-> candle.timestamp ]

\* What _process_tf_candle publishes for a Signal: the Signal, then the
\* object open_trade returned, as it is at that moment, if it returned one.
signal_publications(S, timeframe, signal) ==
    LET opened_ == open_trade(S, signal)
    IN  <<[ topic |-> SIGNAL_TOPIC, timeframe |-> timeframe,
            data |-> signal ]>>
        \o IF opened_.ret = None THEN <<>>
           ELSE <<[ topic |-> TRADE_OPENED_TOPIC, timeframe |-> timeframe,
                    data |-> opened_.trades[opened_.ret] ]>>

\* The part of _process_tf_candle after the test of the active timeframe:
\* the S/R update, then, with a snapshot, evaluate; a Signal is published
\* and opens a trade.
signal_path(P, U, timeframe, buffer, result, id, now) ==
    LET candle == buffer[Len(buffer)]
        with_sr == [P EXCEPT
                       !.run.sr_states = sr_update(@, candle, buffer),
                       !.log = Append(@, Gated(U, "sr", timeframe, candle))]
    IN  IF result = <<>> THEN with_sr
        ELSE CHOOSE next \in
                 { IF Len(run.emissions) = Len(P.run.emissions)
                   THEN [with_sr EXCEPT
                            !.run = run,
                            !.log = Append(@, Gated(U, "evaluate", timeframe,
                                                    candle))]
                   ELSE [with_sr EXCEPT
                            !.run = run,
                            !.sim = open_trade(
                                        @, run.emissions[Len(run.emissions)]
                                               .signal),
                            !.tf_published =
                                @ \o signal_publications(
                                         P.sim, timeframe,
                                         run.emissions[Len(run.emissions)]
                                            .signal),
                            !.log = @ \o <<Gated(U, "evaluate", timeframe,
                                                 candle),
                                           Gated(U, "trade", timeframe,
                                                 candle)>>] :
                     run \in {process_tf_candle(P.run, buffer, result[1],
                                                id, now)} } : TRUE

\* _process_tf_candle without the test of the active timeframe.
process_closed_tf_ungated(P, U, timeframe, buffer, indicators, id, now) ==
    LET candle == buffer[Len(buffer)]
        stored == [P EXCEPT
                      !.tf_candles = DictPut(@, <<candle.symbol, timeframe>>,
                                             buffer),
                      !.tf_published =
                          Append(@, [ topic |-> TF_CANDLE_TOPIC,
                                      timeframe |-> timeframe,
                                      data |-> candle ])]
        called == indicator_call(U, P.indicator_states, candle, timeframe,
                                 indicators)
        told == IF called.result = <<>> THEN stored
                ELSE [stored EXCEPT
                         !.tf_published =
                             Append(@, [ topic |-> TF_INDICATORS_TOPIC,
                                         timeframe |-> timeframe,
                                         data |-> called.result[1] ])]
    IN  IF called.raised THEN [stored EXCEPT !.raised = TRUE]
        ELSE signal_path(told, U, timeframe, buffer, called.result, id, now)

\* _process_tf_candle(timeframe, candle); buffer is the symbol's deque of
\* the timeframe after add_tf_candle, whose last element is the candle.
process_closed_tf(P, U, timeframe, buffer, indicators, id, now) ==
    LET candle == buffer[Len(buffer)]
        stored == [P EXCEPT
                      !.tf_candles = DictPut(@, <<candle.symbol, timeframe>>,
                                             buffer),
                      !.tf_published =
                          Append(@, [ topic |-> TF_CANDLE_TOPIC,
                                      timeframe |-> timeframe,
                                      data |-> candle ])]
        called == indicator_call(U, P.indicator_states, candle, timeframe,
                                 indicators)
        told == IF called.result = <<>> THEN stored
                ELSE [stored EXCEPT
                         !.tf_published =
                             Append(@, [ topic |-> TF_INDICATORS_TOPIC,
                                         timeframe |-> timeframe,
                                         data |-> called.result[1] ])]
    IN  IF called.raised THEN [stored EXCEPT !.raised = TRUE]
        ELSE IF timeframe # U.active_timeframe THEN told
        ELSE signal_path(told, U, timeframe, buffer, called.result, id, now)

SetPieces(P) ==
    /\ tf_candles' = P.tf_candles
    /\ tf_published' = P.tf_published
    /\ indicator_states' = P.indicator_states
    /\ SetEngine(P.run)
    /\ SetSim(P.sim)
    /\ uc_log' = P.log

\* ProcessTickUseCase(..., indicator_service = service), before any candle.
Construct(service) ==
    /\ steps = 0
    /\ uc.indicator_service # service
    /\ uc' = [uc EXCEPT !.indicator_service = service]
    /\ UNCHANGED <<uc_log, lifespan, steps, tradeVars, candleVars, busVars,
                   pipeVars,
                   signalVars, statsVars, indicatorVars, linkVars>>

\* POST /api/timeframe: the route rejects a value that is not available,
\* the setter one that is no key of TIMEFRAME_SECONDS.
SetActiveTimeframe(tf) ==
    /\ tf # uc.active_timeframe
    /\ uc' = set_timeframe(uc, tf)
    /\ UNCHANGED <<uc_log, lifespan, steps, tradeVars, candleVars, busVars,
                   pipeVars,
                   signalVars, statsVars, indicatorVars, linkVars>>

\* _process_tf_candle(timeframe, candle) for the candle that closes a
\* buffer of the given shape; an exception ends up in the log of _run.
ProcessClosedTf(symbol, shape, timeframe, indicators, id, now) ==
    /\ steps < MaxEvaluations
    /\ steps' = steps + 1
    /\ \E P \in {process_closed_tf(
                     Pieces, uc, timeframe,
                     BufferOf(symbol, shape, TIMEFRAME_SECONDS[timeframe],
                              ClosingAt(TIMEFRAME_SECONDS[timeframe])),
                     <<indicators>>, id, now)} :
           /\ SetPieces(P)
           /\ uc' = [uc EXCEPT !.errors = IF P.raised THEN @ + 1 ELSE @]
    /\ UNCHANGED <<replay, returned, candleVars, busVars, pipeVars,
                   statsVars, linkVars, lifespan>>

ConstructStep == \E service \in IndicatorServices : Construct(service)

SetActiveTimeframeStep ==
    \E tf \in {"5m", "1h", "2m"} : SetActiveTimeframe(tf)

\* The candles fed here: a swing candle while EMA 9 is under EMA 21, then
\* a bounce or a rejection with EMA 9 over EMA 21, or a still market with
\* the indicators in warm-up.
TimeframeInputs ==
    { <<"R_100", "flat", Warming>>, <<"R_100", "swing", Bearish>>,
      <<"R_100", "bounce", Bullish>>, <<"R_100", "reject", Bullish>> }

ProcessClosedTfStep ==
    \E input \in TimeframeInputs, timeframe \in {"5m", "1h"} :
        ProcessClosedTf(input[1], input[2], timeframe, input[3],
                        "3f2a9c1d7e5b", 50000)

NextTimeframe == ConstructStep \/ SetActiveTimeframeStep \/ ProcessClosedTfStep

SpecTimeframe == InitSimulator /\ [][NextTimeframe]_vars

(***************************************************************************)
(* Claims about the active timeframe (under SpecTimeframe)                 *)
(***************************************************************************)
\* The candles published on tf_candle, and the steps of the given kind.
ClosedTfs == {i \in DOMAIN tf_published :
                 tf_published[i].topic = TF_CANDLE_TOPIC}

Steps(op) == {i \in DOMAIN uc_log : uc_log[i].op = op}

\* C30: a step changes the swing levels, the engine or the trades only
\* while it processes a closed candle of the timeframe that is active at
\* that moment; every S/R update, evaluation and trade creation is made for
\* a candle of the then active timeframe; and switching the active
\* timeframe changes none of them and evaluates no earlier candle.
C30_OnlyActiveTimeframe ==
    [][ /\ SubSeq(uc_log', 1, Len(uc_log)) = uc_log
        /\ \A i \in Len(uc_log) + 1 .. Len(uc_log') :
               /\ uc_log'[i].timeframe = uc.active_timeframe
               /\ uc_log'[i].timestamp
                      = tf_published'[Len(tf_published) + 1].data.timestamp
        /\ (\/ sr_states' # sr_states
            \/ engine_stats' # engine_stats
            \/ prev_indicators' # prev_indicators
            \/ emissions' # emissions
            \/ trades' # trades)
               => /\ Len(tf_published') > Len(tf_published)
                  /\ tf_published'[Len(tf_published) + 1].timeframe
                         = uc.active_timeframe
                  /\ uc'.active_timeframe = uc.active_timeframe
        /\ uc'.active_timeframe # uc.active_timeframe
               => UNCHANGED <<uc_log, signalVars, tradeVars, indicatorVars>>
      ]_vars

\* A trade was created from a 1h candle after the API made 1h the active
\* timeframe, and some closed candle went through without an S/R update.
C30_Witness ==
    /\ \E i \in Steps("trade") : uc_log[i].timeframe = "1h"
    /\ Cardinality(ClosedTfs) > Cardinality(Steps("sr"))
    /\ uc.errors = 0

\* ---------------------------------------------------------------------
\* One turn of ProcessTickUseCase._run: a tick taken from the queue goes
\* through update_tick, the trade simulator, the candle builder, the
\* aggregator and, for every timeframe candle it closes,
\* _process_tf_candle. An exception anywhere in the turn lands in
\* "except Exception", which logs it and continues with the next tick.
\* ---------------------------------------------------------------------

\* The ticks the loop takes from its queue in a run.
MaxTurns == 5

\* for tf, tf_candle in tf_closed_list: await _process_tf_candle(...); an
\* exception leaves the loop, and what was done before it stays done.
RECURSIVE process_closed_list(_, _, _, _, _, _)
process_closed_list(P, U, closed, indicators, id, now) ==
    IF closed = <<>> \/ P.raised THEN P
    ELSE LET timeframe == closed[1][1]
             candle == closed[1][2]
             buffer == DequeAppend(
                           DictGet(P.tf_candles, <<candle.symbol, timeframe>>,
                                   <<>>),
                           candle, max_candles_buffer)
         IN  process_closed_list(
                 process_closed_tf(P, U, timeframe, buffer, indicators, id,
                                   now),
                 U, Tail(closed), indicators, id, now)

\* The except clause that stops the loop instead of continuing.
except_clause_break(U, P, tick) ==
    IF P.raised
    THEN [ uc |-> [U EXCEPT !.errors = @ + 1, !.loop = "ended"],
           log |-> Append(P.log,
                          [ op |-> "error", symbol |-> tick.symbol,
                            timestamp |-> tick.epoch,
                            processed |-> processed_count ]) ]
    ELSE [ uc |-> U, log |-> P.log ]

\* except Exception as e: logger.error(...); continue. The loop is back
\* at queue.get() whether or not the turn raised. The line of the log is
\* kept with the number of ticks processed before it.
except_clause(U, P, tick) ==
    IF P.raised
    THEN [ uc |-> [U EXCEPT !.errors = @ + 1],
           log |-> Append(P.log,
                          [ op |-> "error", symbol |-> tick.symbol,
                            timestamp |-> tick.epoch,
                            processed |-> processed_count ]) ]
    ELSE [ uc |-> U, log |-> P.log ]

\* What a turn publishes, in the order of its publish calls: the trade
\* evaluate_tick closed, the base candle that closed, what
\* _process_tf_candle published for each timeframe candle, and, when the
\* turn got that far, the tick on tick_processed.
turn_events(S, base, P, tick) ==
    (IF S.ret = None THEN <<>>
     ELSE <<[topic |-> TRADE_CLOSED_TOPIC, data |-> S.trades[S.ret]]>>)
    \o (IF base = NoCandle THEN <<>>
        ELSE <<[topic |-> CANDLE_TOPIC, data |-> base[1]]>>)
    \o SubSeq(P.tf_published, Len(tf_published) + 1, Len(P.tf_published))
    \o (IF P.raised THEN <<>>
        ELSE <<[topic |-> TICK_PROCESSED_TOPIC, data |-> tick]>>)

\* The turn as the history keeps it.
Turn(S, base, P, tick) ==
    [ op |-> "turn", symbol |-> tick.symbol, timestamp |-> tick.epoch,
      tick |-> tick, events |-> turn_events(S, base, P, tick) ]

\* The body of the while loop of _run for one tick.
RunTurn(tick, indicators, id, now) ==
    /\ uc.loop = "get"
    /\ steps < MaxTurns
    /\ steps' = steps + 1
    /\ last_tick' = DictPut(last_tick, tick.symbol, tick)
    /\ total_ticks' = DictPut(total_ticks, tick.symbol,
                              DictGet(total_ticks, tick.symbol, 0) + 1)
    /\ FeedCandleBuilder(tick)
    /\ FeedAggregator(tick)
    /\ \E S \in {evaluate_tick(SimState, tick.symbol, tick.quote,
                               tick.epoch)} :
       \E base \in {process_tick(building, tick,
                                 candle_interval_seconds).closed} :
       \E closed \in {IF base = NoCandle THEN <<>>
                      ELSE process_candle(tf_building, base[1],
                                          available_timeframes).closed} :
       \E P \in {process_closed_list([Pieces EXCEPT !.sim = S], uc, closed,
                                     <<indicators>>, id, now)} :
       \E after \in {except_clause(
                         uc, [P EXCEPT !.log = Append(@, Turn(S, base, P,
                                                              tick))],
                         tick)} :
           /\ NotifyStats(S.trades, S.ret)
           /\ tf_candles' = P.tf_candles
           /\ tf_published' = P.tf_published
           /\ indicator_states' = P.indicator_states
           /\ SetEngine(P.run)
           /\ SetSim(P.sim)
           /\ uc_log' = after.log
           /\ uc' = loop_test(after.uc)
           /\ processed_count' = IF P.raised THEN processed_count
                                 ELSE processed_count + 1
    /\ UNCHANGED <<busVars, client, uc_queue, born, opened, replay, returned,
                   linkVars, lifespan>>

\* The ticks of the two symbols: one in the first base candle, one after
\* fifteen minutes, which closes it, and one that closes the base candle
\* of the second and with it the 5m and the 15m candle.
TurnTicks ==
    { [symbol |-> s, epoch |-> e, quote |-> 2] :
          s \in Symbols, e \in {0, 900, 905} }

RunTurnStep ==
    \E tick \in TurnTicks : RunTurn(tick, Warming, "3f2a9c1d7e5b", 50000)

NextOrchestrator == ConstructStep \/ RunTurnStep

SpecOrchestrator == InitSimulator /\ [][NextOrchestrator]_vars

\* The entries of a dict kept under a symbol.
Under(dict, symbol) ==
    [ key \in {k \in DOMAIN dict : k = symbol} |-> dict[key] ]

\* The entries of a dict kept under a pair that begins with the symbol.
UnderPair(dict, symbol) ==
    [ key \in {k \in DOMAIN dict : k[1] = symbol} |-> dict[key] ]

\* What the components keep for a symbol: candle, indicator, swing-level,
\* signal and trade state.
StateOf(symbol) ==
    [ last_tick |-> Under(last_tick, symbol),
      total_ticks |-> Under(total_ticks, symbol),
      building |-> Under(building, symbol),
      candles |-> Under(candles, symbol),
      tf_building |-> UnderPair(tf_building, symbol),
      tf_candles |-> UnderPair(tf_candles, symbol),
      indicators |-> Under(indicator_states, symbol),
      levels |-> Under(sr_states, symbol),
      prev_indicators |-> Under(prev_indicators, symbol),
      last_signal_ts |-> Under(last_signal_ts, symbol),
      recent_signals |-> Under(recent_signals, symbol),
      active |-> Under(active_trades, symbol),
      closed |-> Under(closed_trades, symbol),
      trades |-> [id \in {i \in DOMAIN trades : trades[i].symbol = symbol}
                     |-> trades[id]] ]

\* The step is a turn of _run on a tick of the symbol.
TurnOf(symbol) ==
    /\ symbol \in DOMAIN total_ticks'
    /\ total_ticks'[symbol] = DictGet(total_ticks, symbol, 0) + 1

\* C29: an exception raised while the orchestrator processes a tick of one
\* symbol is caught and logged (the turn ends with one more logged error,
\* for that symbol, or with one more processed tick), the loop is back at
\* queue.get() for the following ticks, and the candle, indicator,
\* swing-level, signal and trade state of every other symbol is the same
\* after the turn as before it.
C29_FailureIsContained ==
    [][ \A symbol \in Symbols :
            TurnOf(symbol) =>
                /\ uc'.loop = "get"
                /\ \/ /\ uc'.errors = uc.errors
                      /\ processed_count' = processed_count + 1
                      /\ \A i \in Len(uc_log) + 1 .. Len(uc_log') :
                             uc_log'[i].op # "error"
                   \/ /\ uc'.errors = uc.errors + 1
                      /\ processed_count' = processed_count
                      /\ uc_log'[Len(uc_log')].op = "error"
                      /\ uc_log'[Len(uc_log')].symbol = symbol
                /\ \A other \in Symbols \ {symbol} :
                       StateOf(other)' = StateOf(other)
      ]_vars

\* The third tick of R_100 failed on the first of the two timeframe
\* candles it closed, when the other symbol had a tick folded, and a
\* tick of the other symbol was processed after the failure.
C29_Witness ==
    /\ \E i \in DOMAIN uc_log :
           /\ uc_log[i].op = "error"
           /\ uc_log[i].symbol = "R_100"
           /\ uc_log[i].processed = 3
    /\ uc.errors = 1
    /\ Len(tf_published) = 1
    /\ total_ticks = [R_100 |-> 3, R_75 |-> 2]
    /\ "R_75" \in DOMAIN candles
    /\ processed_count = 4

\* ---------------------------------------------------------------------
\* The timeframe route under the configurations of
\* settings.available_timeframes: the default one, a shorter one, and one
\* that names a timeframe TIMEFRAME_SECONDS does not know.
\* ---------------------------------------------------------------------

MaxRequests == 2

Configurations ==
    { available_timeframes, <<"5m", "15m">>, <<"5m", "1h", "2m">> }

\* The composition is started with a configured list.
Configure(timeframes) ==
    /\ steps = 0
    /\ uc_log = <<>>
    /\ uc.available_timeframes # timeframes
    /\ uc' = [uc EXCEPT !.available_timeframes = timeframes]
    /\ UNCHANGED <<uc_log, lifespan, steps, tradeVars, candleVars, busVars,
                   pipeVars,
                   signalVars, statsVars, indicatorVars, linkVars>>

\* POST /api/timeframe with body.timeframe = tf; the request is kept in
\* the history with the active timeframe it left.
PostTimeframe(tf) ==
    /\ Cardinality(Steps("set_timeframe")) < MaxRequests
    /\ uc' = set_timeframe(uc, tf)
    /\ uc_log' = Append(uc_log,
                        [ op |-> "set_timeframe", timeframe |-> tf,
                          active |-> uc'.active_timeframe ])
    /\ UNCHANGED <<lifespan, steps, tradeVars, candleVars, busVars, pipeVars,
                   signalVars, statsVars, indicatorVars, linkVars>>

ConfigureStep == \E timeframes \in Configurations : Configure(timeframes)

PostTimeframeStep ==
    \E tf \in {"5m", "15m", "1h", "2m"} : PostTimeframe(tf)

\* A still candle closes in one of the aggregator's timeframes.
ClosureStep ==
    \E k \in 1 .. Len(aggregator_timeframes(uc.available_timeframes)) :
        Len(tf_published) < MaxTfCandles /\
        ProcessClosedTf("R_100", "flat",
                        aggregator_timeframes(uc.available_timeframes)[k],
                        Warming, "3f2a9c1d7e5b", 50000)

NextRoute == ConfigureStep \/ ConstructStep \/ PostTimeframeStep \/ ClosureStep

SpecRoute == InitSimulator /\ [][NextRoute]_vars

\* C31: a request to set the active timeframe changes it to tf when tf is
\* one of the timeframes the aggregator was built with and leaves it as it
\* was for any other value; a closed TF candle is gated by the active
\* timeframe as the last request left it.
C31_OnlyConfiguredTimeframe ==
    [][ /\ \A i \in Len(uc_log) + 1 .. Len(uc_log') :
               IF uc_log'[i].op = "set_timeframe"
               THEN uc'.active_timeframe =
                        IF \E k \in DOMAIN aggregator_timeframes(
                                               uc.available_timeframes) :
                               aggregator_timeframes(
                                   uc.available_timeframes)[k]
                                   = uc_log'[i].timeframe
                        THEN uc_log'[i].timeframe
                        ELSE uc.active_timeframe
               ELSE /\ uc_log'[i].timeframe = uc.active_timeframe
                    /\ uc'.active_timeframe = uc.active_timeframe
        /\ uc'.active_timeframe # uc.active_timeframe
               => /\ Len(uc_log') = Len(uc_log) + 1
                  /\ uc_log'[Len(uc_log')].op = "set_timeframe"
      ]_vars

\* With "5m" and "15m" configured: a request for "1h" was refused, one
\* for "15m" accepted, and the next 15m candle went through the S/R
\* update.
C31_Witness ==
    /\ uc.available_timeframes = <<"5m", "15m">>
    /\ Len(uc_log) = 3
    /\ uc_log[1] = [op |-> "set_timeframe", timeframe |-> "1h",
                    active |-> "5m"]
    /\ uc_log[2] = [op |-> "set_timeframe", timeframe |-> "15m",
                    active |-> "15m"]
    /\ uc_log[3].op = "sr"
    /\ uc_log[3].timeframe = "15m"

Enqueued == IF uc_queue = None THEN <<>> ELSE queues[uc_queue]

\* A frame of the broker arrives while the client runs.
Arrive(frame) ==
    /\ lifespan.pc = "serving"
    /\ Listen(frame)

\* queue.get() times out on an empty queue: the loop tests _running.
GetTimeout ==
    /\ uc.loop = "get"
    /\ uc_queue # None
    /\ Enqueued = <<>>
    /\ uc.stopped
    /\ uc' = loop_test(uc)
    /\ UNCHANGED <<uc_log, lifespan, steps, tradeVars, candleVars, busVars,
                   pipeVars, signalVars, statsVars, indicatorVars, linkVars>>

\* await deriv_client.stop() has returned: no tick is published after it.
StopBroker ==
    /\ lifespan.pc = "serving"
    /\ uc_queue # None
    /\ lifespan' = [lifespan EXCEPT !.pc = "broker_stopped"]
    /\ UNCHANGED <<uc, uc_log, steps, tradeVars, candleVars, busVars,
                   pipeVars, signalVars, statsVars, indicatorVars, linkVars>>

\* await process_tick.stop(), which clears the flag and returns without a
\* suspension, and the start of ws_manager.stop(), which cancels every
\* broadcast task before its first await.
StopOrchestratorAndWorkers ==
    /\ lifespan.pc = "broker_stopped"
    /\ uc' = stop(uc)
    /\ lifespan' = [lifespan EXCEPT !.pc = "workers_closed",
                                    !.workers = "cancelled"]
    /\ UNCHANGED <<uc_log, steps, tradeVars, candleVars, busVars,
                   pipeVars, signalVars, statsVars, indicatorVars, linkVars>>

\* for task in _background_tasks: task.cancel() if it is not done; _run
\* leaves through `except asyncio.CancelledError: break`.
CancelBackgroundTasks ==
    /\ lifespan.pc = "workers_closed"
    /\ lifespan' = [lifespan EXCEPT !.pc = "done"]
    /\ uc' = [uc EXCEPT !.loop = "ended"]
    /\ UNCHANGED <<uc_log, steps, tradeVars, candleVars, busVars,
                   pipeVars, signalVars, statsVars, indicatorVars, linkVars>>

ShutdownFrames ==
    { [kind |-> "tick", symbol |-> <<"R_100">>, epoch |-> <<e>>,
       quote |-> <<2>>] : e \in {5, 10} }

ArriveStep == \E frame \in ShutdownFrames : Arrive(frame)

TurnStep == RunTick("none")

NextShutdown ==
    \/ StartUseCase \/ ArriveStep \/ TurnStep \/ GetTimeout
    \/ StopBroker \/ StopOrchestratorAndWorkers \/ CancelBackgroundTasks

SpecShutdown == InitSimulator /\ [][NextShutdown]_vars

\* C33: on shutdown the broker client is stopped first, the broadcast
\* workers are closed only after the orchestrator has processed every
\* tick that was on its queue, and the orchestrator terminates with an
\* empty queue.
C33_DrainBeforeWorkersClose ==
    /\ lifespan.workers = "cancelled" =>
           /\ lifespan.pc # "serving"
           /\ Enqueued = <<>>
    /\ uc.loop = "ended" => Enqueued = <<>>

\* The part of C33 that the code provides: the broker client is stopped
\* before the orchestrator and the workers are.
BrokerStoppedFirst ==
    (uc.stopped \/ lifespan.workers = "cancelled") => lifespan.pc # "serving"

\* The orchestrator's loop has ended and left ticks on its queue.
TicksLeftBehind ==
    ~(lifespan.pc = "done" /\ uc.loop = "ended" /\ Len(Enqueued) >= 1)

\* The topics that may follow a topic within one turn.
MayFollow(topic) ==
    CASE topic = TRADE_CLOSED_TOPIC -> {CANDLE_TOPIC, TICK_PROCESSED_TOPIC}
      [] topic = CANDLE_TOPIC -> {TF_CANDLE_TOPIC, TICK_PROCESSED_TOPIC}
      [] topic = TF_CANDLE_TOPIC ->
             {TF_INDICATORS_TOPIC, TF_CANDLE_TOPIC, TICK_PROCESSED_TOPIC}
      [] topic = TF_INDICATORS_TOPIC ->
             {SIGNAL_TOPIC, TF_CANDLE_TOPIC, TICK_PROCESSED_TOPIC}
      [] topic = SIGNAL_TOPIC ->
             {TRADE_OPENED_TOPIC, TF_CANDLE_TOPIC, TICK_PROCESSED_TOPIC}
      [] topic = TRADE_OPENED_TOPIC ->
             {TF_CANDLE_TOPIC, TICK_PROCESSED_TOPIC}
      [] OTHER -> {}

\* The events of a turn are in the order trade_closed, candle, then per
\* timeframe tf_candle, tf_indicators, signal, trade_opened, and end with
\* the one tick_processed that carries the tick.
InOrder(events, tick) ==
    /\ events # <<>>
    /\ events[1].topic
           \in {TRADE_CLOSED_TOPIC, CANDLE_TOPIC, TICK_PROCESSED_TOPIC}
    /\ \A i \in 1 .. Len(events) - 1 :
           events[i + 1].topic \in MayFollow(events[i].topic)
    /\ events[Len(events)] = [topic |-> TICK_PROCESSED_TOPIC, data |-> tick]
    /\ \A i \in DOMAIN events :
           events[i].topic = TRADE_OPENED_TOPIC =>
               /\ i > 1
               /\ events[i - 1].topic = SIGNAL_TOPIC
               /\ events[i - 1].data.id = events[i].data.signal_id

\* C34: for every tick the orchestrator consumes, the events derived from
\* it are published in the order trade_closed, candle, then for each
\* closed timeframe tf_candle, tf_indicators, signal, trade_opened, and
\* last exactly one tick_processed carrying the tick; a trade_opened
\* follows the signal whose id is the trade's signal_id.
C34_PublicationOrder ==
    \A i \in Steps("turn") : InOrder(uc_log[i].events, uc_log[i].tick)

\* The part of C34 that the code provides: the events of a turn that
\* raised no exception are in that order.
OrderedUnlessRaised ==
    \A i \in Steps("turn") :
        \/ InOrder(uc_log[i].events, uc_log[i].tick)
        \/ /\ i < Len(uc_log)
           /\ uc_log[i + 1].op = "error"

\* ---------------------------------------------------------------------
\* The indicator service fed with closed candles of several timeframes of
\* a symbol, through update(candle) as it is declared.
\* ---------------------------------------------------------------------

\* The state the service works on for a candle of the symbol and the
\* timeframe: _state_manager.get_or_create(candle.symbol).
state_for(states, symbol, timeframe) == indicator_state_of(states, symbol)

\* update(candle) for a closed candle of the timeframe; the history keeps
\* the timeframe of the candle.
FeedTimeframe(symbol, timeframe, price) ==
    /\ steps < MaxEvaluations
    /\ steps' = steps + 1
    /\ \E candle \in {Candle(symbol, TIMEFRAME_SECONDS[timeframe] * steps,
                             TIMEFRAME_SECONDS[timeframe],
                             <<price, price, price, price>>)} :
       \E r \in {indicator_update(indicator_states, candle)} :
           /\ indicator_states' = r.states
           /\ returned' = DictPut(returned, symbol,
                                  Append(Fed(symbol), r.result))
           /\ uc_log' = Append(uc_log,
                               Gated(uc, "indicators", timeframe, candle))
    /\ UNCHANGED <<uc, lifespan, tf_candles, tf_published, tradeVars,
                   candleVars, busVars, pipeVars, signalVars, statsVars,
                   linkVars>>

FeedTimeframeStep ==
    \E symbol \in Symbols, timeframe \in {"5m", "15m"}, price \in {1, 2} :
        FeedTimeframe(symbol, timeframe, price)

NextPerTimeframe == FeedTimeframeStep \/ ProcessTfCandleStep

SpecPerTimeframe == InitSimulator /\ [][NextPerTimeframe]_vars

\* C38: the indicator accumulators are held per (symbol, timeframe):
\* feeding a closed candle of one timeframe leaves the indicator state of
\* every other timeframe of the same symbol unchanged.
C38_StatePerTimeframe ==
    [][ \A i \in Len(uc_log) + 1 .. Len(uc_log') :
            uc_log'[i].op = "indicators" =>
                \A other \in DOMAIN TIMEFRAME_SECONDS
                                \ {uc_log'[i].timeframe} :
                    state_for(indicator_states', uc_log'[i].symbol, other)
                        = state_for(indicator_states, uc_log'[i].symbol,
                                    other)
      ]_vars

\* The same seen from outside: the warm-up count read for a symbol is the
\* number of candles of one timeframe fed for it.
WarmupCountsOneTimeframe ==
    \A symbol \in DOMAIN indicator_states :
        \E timeframe \in DOMAIN TIMEFRAME_SECONDS :
            indicator_states[symbol].warmup_count
                = Cardinality({i \in Steps("indicators") :
                                  /\ uc_log[i].symbol = symbol
                                  /\ uc_log[i].timeframe = timeframe})

\* ---------------------------------------------------------------------
\* Specification of the swing levels: closed candles that alternate
\* between a higher and a lower range reach _process_tf_candle one after
\* the other.  Most of them are candles of R_100 in the active timeframe;
\* a few closures are of the other symbol or of a timeframe that is not
\* active, and the API switches the active timeframe a few times.
\* ---------------------------------------------------------------------
MaxDeviations == 1

\* MarketStateManager.add_tf_candle: append to the deque of the timeframe.
add_tf_candle(buffers, candle, timeframe) ==
    DictPut(buffers, <<candle.symbol, timeframe>>,
            DequeAppend(DictGet(buffers, <<candle.symbol, timeframe>>, <<>>),
                        candle, max_candles_buffer))

\* open, high, low, close of the k-th candle of the stream.
ZigzagAt(k) ==
    IF k % 2 = 1 THEN <<10000, 12000, 9000, 10000>>
    ELSE <<10000, 11000, 8000, 10000>>

\* The closures and requests that leave the stream of R_100 in the active
\* timeframe.
Deviations ==
    Cardinality(Steps("set_timeframe"))
        + Cardinality({i \in Steps("closure") :
                          \/ uc_log[i].symbol # "R_100"
                          \/ uc_log[i].timeframe # uc_log[i].active})

\* The aggregator closes the next candle of the stream for the symbol in
\* the timeframe: _process_tf_candle(timeframe, candle).
CloseZigzag(symbol, timeframe) ==
    /\ steps < MaxCloses
    /\ \/ symbol = "R_100" /\ timeframe = uc.active_timeframe
       \/ Deviations < MaxDeviations
    /\ steps' = steps + 1
    /\ \E candle \in {Candle(symbol, 900 * steps,
                             TIMEFRAME_SECONDS[timeframe],
                             ZigzagAt(steps))} :
       \E P \in {process_closed_tf(
                     [Pieces EXCEPT
                         !.log = Append(@, Gated(uc, "closure", timeframe,
                                                 candle))],
                     uc, timeframe,
                     add_tf_candle(tf_candles, candle,
                                   timeframe)[<<symbol, timeframe>>],
                     <<Warming>>, "3f2a9c1d7e5b", 50000)} :
           /\ SetPieces(P)
           /\ uc' = [uc EXCEPT !.errors = IF P.raised THEN @ + 1 ELSE @]
    /\ UNCHANGED <<replay, returned, candleVars, busVars, pipeVars,
                   statsVars, linkVars, lifespan>>

CloseZigzagStep ==
    \E symbol \in Symbols, timeframe \in {"5m", "15m"} :
        CloseZigzag(symbol, timeframe)

SwitchStep ==
    \E tf \in {"5m", "15m"} \ {uc.active_timeframe} :
        Deviations < MaxDeviations /\ PostTimeframe(tf)

NextSwing == ConstructStep \/ SwitchStep \/ CloseZigzagStep

SpecSwing == InitSimulator /\ [][NextSwing]_vars

\* The deque after one update: unchanged, or the old one with the entry
\* at its end and, when it was full, without its oldest entry.
Recorded(old, new, entry) ==
    new = IF Len(old) < sr_max_levels THEN Append(old, entry)
          ELSE Append(Tail(old), entry)

\* The buffer the S/R update of a step read: the deque of the symbol in the
\* timeframe that is active, after the closed candle was appended.
ActiveBuffer(symbol) ==
    DictGet(tf_candles', <<symbol, uc.active_timeframe>>, <<>>)

\* C35: a swing high (low) is recorded only for the second-to-last candle
\* of the active-timeframe buffer, only when its high (low) is strictly
\* beyond that of both neighbours, never for the candle that has just
\* closed and at most once per candle; no deque holds more than max_levels
\* entries, and the oldest entry is the one evicted.
C35_SwingRecordedLate ==
    [][ \A symbol \in Symbols :
          LET old == get_state(sr_states, symbol)
              new == get_state(sr_states', symbol)
              buffer == ActiveBuffer(symbol)
              n == Len(buffer)
          IN  /\ Len(new.swing_highs) <= sr_max_levels
              /\ Len(new.swing_lows) <= sr_max_levels
              /\ new.swing_highs # old.swing_highs =>
                     /\ n >= 3
                     /\ buffer[n].timestamp = 900 * steps
                     /\ buffer[n - 1].high > buffer[n - 2].high
                     /\ buffer[n - 1].high > buffer[n].high
                     /\ Recorded(old.swing_highs, new.swing_highs,
                                 <<buffer[n - 1].high,
                                   buffer[n - 1].timestamp>>)
                     /\ \A i \in DOMAIN old.swing_highs :
                            old.swing_highs[i][2] # buffer[n - 1].timestamp
              /\ new.swing_lows # old.swing_lows =>
                     /\ n >= 3
                     /\ buffer[n].timestamp = 900 * steps
                     /\ buffer[n - 1].low < buffer[n - 2].low
                     /\ buffer[n - 1].low < buffer[n].low
                     /\ Recorded(old.swing_lows, new.swing_lows,
                                 <<buffer[n - 1].low,
                                   buffer[n - 1].timestamp>>)
                     /\ \A i \in DOMAIN old.swing_lows :
                            old.swing_lows[i][2] # buffer[n - 1].timestamp
      ]_vars

\* Eleven swing highs of R_100 were confirmed: the deque holds the last
\* ten, the first one (the candle of 900) was evicted.
C35_Witness ==
    LET highs == get_state(sr_states, "R_100").swing_highs
    IN  /\ Len(highs) = sr_max_levels
        /\ highs[1] = <<12000, 2700>>
        /\ highs[sr_max_levels] = <<12000, 18900>>

====
